---------------------------- MODULE Spec2Model ----------------------------
(***************************************************************************)
(* Battle effect-resolution engine (battleCore.js, itemEffects.js).        *)
(*                                                                         *)
(* Creatures, effects, tools and spells are records; every resolver of the *)
(* source is an operator computed the way the source computes it, and      *)
(* every exported operation is an action of one of the specifications      *)
(* defined at the end of the module.                                       *)
(*                                                                         *)
(* Numbers.  The source works on IEEE doubles.  Every product that is      *)
(* rounded by Math.round / Math.floor is modelled by exact integer         *)
(* arithmetic on a common denominator (RoundDiv, FloorDiv); for the value  *)
(* ranges of this model the double result and the exact result agree.     *)
(***************************************************************************)
EXTENDS Integers, Sequences, FiniteSets, TLC

\* ------------------------------------------------------------------------
\* Arithmetic helpers
\* ------------------------------------------------------------------------

Max(a, b) == IF a >= b THEN a ELSE b

Min(a, b) == IF a <= b THEN a ELSE b

Abs(a) == IF a < 0 THEN -a ELSE a

Sign(a) == IF a > 0 THEN 1 ELSE IF a < 0 THEN -1 ELSE 0

\* Math.round(n / d) for d > 0: nearest integer, ties toward +infinity.
RoundDiv(n, d) == (2 * n + d) \div (2 * d)

\* Math.floor(n / d) for d > 0.
FloorDiv(n, d) == n \div d

\* A const declaration: value is computed once and handed to Body.
Bind(value, Body(_)) == CHOOSE y \in {Body(x) : x \in {value}} : TRUE

\* The empty object {}.
EmptyMap == [s \in {} |-> 0]

\* { ...a, ...b } restricted to numbers: b's keys override a's.
Merge(a, b) ==
  [s \in (DOMAIN a) \cup (DOMAIN b) |-> IF s \in DOMAIN b THEN b[s] ELSE a[s]]

\* ------------------------------------------------------------------------
\* Data model
\* ------------------------------------------------------------------------

Stats ==
  {"physicalAttack", "magicalAttack", "physicalDefense", "magicalDefense",
   "maxHealth", "initiative", "criticalChance", "dodgeChance", "energyCost"}

\* stat.includes('Attack') || stat.includes('Defense')
AttackDefenseStats ==
  {"physicalAttack", "magicalAttack", "physicalDefense", "magicalDefense"}

\* stat === 'initiative' || stat.includes('Chance')
InitiativeChanceStats == {"initiative", "criticalChance", "dodgeChance"}

\* stat.includes('Chance')
ChanceStats == {"criticalChance", "dodgeChance"}

Difficulties == {"easy", "medium", "hard", "expert"}

Rarities == {"Common", "Rare", "Epic", "Legendary"}

ItemCategories == {"energy", "strength", "magic", "stamina", "speed"}

EffectTags == {"Surge", "Shield", "Echo", "Drain", "Charge"}

\* An effect without a chargeEffect property.
NoCharge ==
  [present |-> FALSE, targetStat |-> "none", perTurnBonus |-> 0,
   maxTurns |-> 0, finalBurst |-> 0]

\* An active effect.  healthOverTime 0 stands for 0 and for undefined (the
\* source treats both alike); effectType "none" stands for undefined.
MkEffect(id, name, type, effectType, duration, mods, hot, startTurn, charge) ==
  [id |-> id, name |-> name, type |-> type, effectType |-> effectType,
   duration |-> duration, statModifications |-> mods, healthOverTime |-> hot,
   startTurn |-> startTurn, chargeEffect |-> charge]


\* A battle participant.  stats is creature.stats (one attribute per item
\* category), derived is the value calculateDerivedStats returns for it,
\* nextAttackBonus 0 stands for an absent bonus, currentTurn 0 for an absent
\* currentTurn (the source reads both with "|| 0").
MkCreature(id, rarity, energySpec, form, comb, perm, stats, derived, health) ==
  [id |-> id, present |-> TRUE, rarity |-> rarity,
   energySpecialist |-> energySpec, form |-> form,
   combination_level |-> comb, permanentModifications |-> perm,
   hasStats |-> TRUE, stats |-> stats, derived |-> derived,
   hasBattleStats |-> TRUE, battleStats |-> derived,
   currentHealth |-> health, activeEffects |-> <<>>,
   isDefending |-> FALSE, nextAttackBonus |-> 0, currentTurn |-> 0]

\* ------------------------------------------------------------------------
\* Stat recalculation pipeline
\* ------------------------------------------------------------------------

\* calculateDerivedStats (battleCalculations.js): a pure function of the
\* creature's base attributes, which no operation of the core changes.
calculateDerivedStats(creature) == creature.derived

\* The minimum the pipeline enforces after adding a modification to a stat.
ClampModified(stat, value) ==
  IF stat \in AttackDefenseStats THEN Max(1, value)
  ELSE IF stat = "maxHealth" THEN Max(10, value)
  ELSE IF stat \in InitiativeChanceStats THEN Max(0, value)
  ELSE value

\* One effect's statModifications added to the stats that are defined.
AddEffectMods(stats, mods) ==
  [s \in DOMAIN stats |->
     IF s \in DOMAIN mods THEN ClampModified(s, stats[s] + mods[s])
     ELSE stats[s]]

RECURSIVE AddAllEffectMods(_, _, _)
\* creature.activeEffects.forEach(...), in list order, from index i on.
AddAllEffectMods(stats, effects, i) ==
  IF i > Len(effects) THEN stats
  ELSE Bind(AddEffectMods(stats, effects[i].statModifications),
            LAMBDA next : AddAllEffectMods(next, effects, i + 1))

\* permanentModifications added without a clamp.
AddPermanentMods(stats, perm) ==
  [s \in DOMAIN stats |->
     IF s \in DOMAIN perm THEN stats[s] + perm[s] ELSE stats[s]]

\* Math.round(stat * (1 + level * 0.08)) on every stat but the chance stats
\* and energyCost.
ApplyCombination(stats, level) ==
  IF level > 0
  THEN [s \in DOMAIN stats |->
          IF s \notin ChanceStats /\ s # "energyCost"
          THEN RoundDiv(stats[s] * (100 + 8 * level), 100)
          ELSE stats[s]]
  ELSE stats

\* Variant of RecalculatedStats that adds the modifications to the
\* creature's current battleStats instead of its fresh derived stats.
StatsOnTopOfBattleStats(creature) ==
  IF ~creature.hasStats
  THEN (IF creature.hasBattleStats THEN creature.battleStats ELSE EmptyMap)
  ELSE ApplyCombination(
         AddPermanentMods(
           AddAllEffectMods(IF creature.hasBattleStats
                            THEN creature.battleStats
                            ELSE calculateDerivedStats(creature),
                            creature.activeEffects, 1),
           creature.permanentModifications),
         creature.combination_level)

\* The battleStats recalculateDerivedStats returns.
RecalculatedStats(creature) ==
  IF ~creature.hasStats
  THEN (IF creature.hasBattleStats THEN creature.battleStats ELSE EmptyMap)
  ELSE ApplyCombination(
         AddPermanentMods(
           AddAllEffectMods(calculateDerivedStats(creature),
                            creature.activeEffects, 1),
           creature.permanentModifications),
         creature.combination_level)

\* The mutation recalculateDerivedStats makes on its argument: currentHealth
\* is cut down to the new maxHealth (a currentHealth of 0 is left alone).
HealthAfterRecalculation(creature) ==
  IF creature.hasStats /\ creature.currentHealth # 0
     /\ creature.currentHealth > RecalculatedStats(creature)["maxHealth"]
  THEN RecalculatedStats(creature)["maxHealth"]
  ELSE creature.currentHealth

\* creature.battleStats = recalculateDerivedStats(creature): the statement
\* every caller in the source makes, with the callee's mutation.
recalculateDerivedStats(creature) ==
  Bind(creature, LAMBDA c :
    [c EXCEPT !.battleStats = RecalculatedStats(c),
              !.hasBattleStats = TRUE,
              !.currentHealth = HealthAfterRecalculation(c)])

\* ------------------------------------------------------------------------
\* Item tables (itemEffects.js)
\* ------------------------------------------------------------------------

\* A tool or spell definition; "none" stands for a missing field.
\* present = FALSE stands for a null item.
MkTool(type, effect) ==
  [present |-> TRUE, tool_type |-> type, tool_effect |-> effect]

MkSpell(type, effect) ==
  [present |-> TRUE, spell_type |-> type, spell_effect |-> effect]

\* The difficulty factor of calculateEffectPower, in tenths.
DifficultyPower10(difficulty) ==
  CASE difficulty = "easy" -> 9
    [] difficulty = "medium" -> 10
    [] difficulty = "hard" -> 11
    [] difficulty = "expert" -> 12
    [] OTHER -> 10

\* A tool effect definition.  statChanges and healthChange are in HALVES
\* (the table holds -0.5 and products by 1.5); healthOverTime is whole.
MkToolEffect(statChanges2, healthChange2, hot, duration, charge) ==
  [statChanges2 |-> statChanges2, healthChange2 |-> healthChange2,
   healthOverTime |-> hot, duration |-> duration, chargeEffect |-> charge]

MkCharge(targetStat, perTurnBonus, maxTurns, finalBurst) ==
  [present |-> TRUE, targetStat |-> targetStat, perTurnBonus |-> perTurnBonus,
   maxTurns |-> maxTurns, finalBurst |-> finalBurst]

\* baseEffects[type] of getToolEffect, with its fallback (values in halves).
ToolBaseEffect(type) ==
  CASE type = "energy" ->
         MkToolEffect([energyCost |-> -1], 0, 0, 3, NoCharge)
    [] type = "strength" ->
         MkToolEffect([physicalAttack |-> 20, physicalDefense |-> 10],
                      0, 0, 2, NoCharge)
    [] type = "magic" ->
         MkToolEffect([physicalDefense |-> 20, magicalDefense |-> 20,
                       maxHealth |-> 30], 10, 0, 2, NoCharge)
    [] type = "stamina" ->
         MkToolEffect([physicalDefense |-> 10], 20, 0, 3,
                      MkCharge("physicalDefense", 3, 3, 25))
    [] type = "speed" ->
         MkToolEffect([physicalAttack |-> 16, magicalAttack |-> 16,
                       physicalDefense |-> -4, magicalDefense |-> -4],
                      10, 0, 3, NoCharge)
    [] OTHER ->
         MkToolEffect([physicalAttack |-> 6], 0, 0, 3, NoCharge)

\* Object.keys(baseEffect.statChanges)[0]: the first key in insertion order.
ToolBaseFirstStat(type) ==
  CASE type = "energy" -> "energyCost"
    [] type = "strength" -> "physicalAttack"
    [] type = "magic" -> "physicalDefense"
    [] type = "stamina" -> "physicalDefense"
    [] type = "speed" -> "physicalAttack"
    [] OTHER -> "physicalAttack"

ShieldStatChanges2 ==
  [physicalDefense |-> 20, magicalDefense |-> 20, maxHealth |-> 30]

DrainStatChanges2(defensePenalty2) ==
  [physicalAttack |-> 16, magicalAttack |-> 16,
   physicalDefense |-> defensePenalty2, magicalDefense |-> defensePenalty2]

\* getToolEffect(tool): never null; a tool that lacks tool_effect or
\* tool_type gets the "safe default" effect.
getToolEffect(tool) ==
  LET effect == tool.tool_effect
      type == tool.tool_type
      base == ToolBaseEffect(type)
  IN
  IF effect = "none" \/ type = "none"
  THEN MkToolEffect([physicalDefense |-> 4], 0, 0, 1, NoCharge)
  ELSE
  CASE effect = "Surge" ->
         IF type = "strength"
         THEN MkToolEffect([physicalAttack |-> 20, physicalDefense |-> 10],
                           0, 0, 2, NoCharge)
         ELSE MkToolEffect(
                [s \in DOMAIN base.statChanges2 |-> base.statChanges2[s] * 2],
                (base.healthChange2 * 3) \div 2, 0, 1, base.chargeEffect)
    [] effect = "Shield" ->
         IF type = "magic"
         THEN MkToolEffect(ShieldStatChanges2, 10, 0, 2, NoCharge)
         ELSE MkToolEffect(ShieldStatChanges2, 16, 0, 3, NoCharge)
    [] effect = "Echo" ->
         IF type = "energy"
         THEN MkToolEffect([energyCost |-> -1], 0, 2, 3, NoCharge)
         ELSE MkToolEffect(
                [s \in DOMAIN base.statChanges2 |->
                   2 * RoundDiv(base.statChanges2[s] * 7, 20)],
                base.healthChange2,
                RoundDiv(base.healthChange2, 8), 5, base.chargeEffect)
    [] effect = "Drain" ->
         IF type = "speed"
         THEN MkToolEffect(DrainStatChanges2(-4), 10, 0, 3, NoCharge)
         ELSE MkToolEffect(DrainStatChanges2(-6), 10, 0, 3, NoCharge)
    [] effect = "Charge" ->
         IF type = "stamina"
         THEN MkToolEffect([physicalDefense |-> 6], 0, 0, 3,
                           MkCharge("physicalDefense", 3, 3, 25))
         ELSE MkToolEffect(EmptyMap, 0, 0, 3,
                           MkCharge(ToolBaseFirstStat(type), 3, 3, 15))
    [] OTHER ->
         MkToolEffect(
           [s \in DOMAIN base.statChanges2 |->
              2 * RoundDiv(base.statChanges2[s] * 11, 20)],
           2 * RoundDiv(base.healthChange2 * 11, 20),
           base.healthOverTime, base.duration, base.chargeEffect)

\* calculateEffectPower(item, casterStats, difficulty) in 1/200: the
\* difficulty factor times 1 + (relevantStat - 5) * 0.05 for a spell cast by
\* a creature with stats; a relevantStat of 0 reads as 5.
calculateEffectPower(spellType, hasStats, stats, difficulty) ==
  IF hasStats /\ spellType # "none"
  THEN LET raw == IF spellType \in DOMAIN stats THEN stats[spellType] ELSE 0
           relevantStat == IF raw = 0 THEN 5 ELSE raw
       IN DifficultyPower10(difficulty) * (15 + relevantStat)
  ELSE DifficultyPower10(difficulty) * 20

\* ------------------------------------------------------------------------
\* applyTool (battleCore.js)
\* ------------------------------------------------------------------------

\* The toolEffect of a call that failed: null.
NullToolEffect ==
  [isNull |-> TRUE, statChanges |-> EmptyMap, healthChange |-> 0,
   healthOverTime |-> 0, duration |-> 0]

\* scaledToolEffect: every number of the tool effect scaled by the power
\* multiplier (power200, in 1/200) under the caps of the source.
ScaleToolEffect(toolEffect, power200) ==
  [isNull |-> FALSE,
   statChanges |->
     [s \in DOMAIN toolEffect.statChanges2 |->
        RoundDiv(Min(Abs(toolEffect.statChanges2[s]), 20)
                   * Sign(toolEffect.statChanges2[s]) * Min(power200, 300),
                 400)],
   healthChange |->
     IF toolEffect.healthChange2 # 0
     THEN (IF toolEffect.healthChange2 * power200 >= 50 * 400
           THEN 50
           ELSE RoundDiv(toolEffect.healthChange2 * power200, 400))
     ELSE 0,
   healthOverTime |->
     IF toolEffect.healthOverTime # 0
     THEN RoundDiv(toolEffect.healthOverTime * power200, 200)
     ELSE 0,
   duration |-> IF toolEffect.duration # 0 THEN toolEffect.duration ELSE 1]

\* battleStats[stat] = Math.max(0, battleStats[stat] + value) for the stats
\* that are defined.
AddImmediateChanges(battleStats, changes) ==
  [s \in DOMAIN battleStats |->
     IF s \in DOMAIN changes THEN Max(0, battleStats[s] + changes[s])
     ELSE battleStats[s]]

\* A list of effects with the new effect put in front of the others.
WithNewEffectFirst(effects, effect) == <<effect>> \o effects

\* [...(clone.activeEffects || []), activeEffect]
WithNewEffect(effects, effect) == Append(effects, effect)

\* The active effect applyTool attaches.
ToolActiveEffect(tool, toolEffect, scaled, power200, currentTurn, id) ==
  MkEffect(id, "Tool Effect",
           IF tool.tool_effect = "Charge" /\ toolEffect.chargeEffect.present
           THEN "charge"
           ELSE IF tool.tool_type = "none" THEN "enhancement"
           ELSE tool.tool_type,
           tool.tool_effect, scaled.duration, scaled.statChanges,
           scaled.healthOverTime, currentTurn,
           IF tool.tool_effect = "Charge" /\ toolEffect.chargeEffect.present
           THEN [toolEffect.chargeEffect EXCEPT
                   !.perTurnBonus = RoundDiv(@ * power200, 200),
                   !.finalBurst = RoundDiv(@ * power200, 200)]
           ELSE NoCharge)

\* applyTool(creature, tool, difficulty, currentTurn); id is the identifier
\* the new effect draws from the clock.
applyTool(creature, tool, difficulty, currentTurn, id) ==
  IF ~creature.present \/ ~tool.present \/ ~creature.hasBattleStats
  THEN [updatedCreature |-> creature, toolEffect |-> NullToolEffect]
  ELSE
  LET power200 ==
        calculateEffectPower("none", creature.hasStats, creature.stats,
                             difficulty)
      toolEffect == getToolEffect(tool)
      scaled == ScaleToolEffect(toolEffect, power200)
      c1 == [creature EXCEPT
               !.currentTurn = currentTurn,
               !.battleStats = AddImmediateChanges(@, scaled.statChanges)]
      c2 == IF scaled.duration > 0
            THEN [c1 EXCEPT !.activeEffects =
                    WithNewEffect(@, ToolActiveEffect(tool, toolEffect,
                                                      scaled, power200,
                                                      currentTurn, id))]
            ELSE c1
      c3 == IF scaled.healthChange > 0
            THEN [c2 EXCEPT !.currentHealth =
                    Min(@ + scaled.healthChange, c2.battleStats["maxHealth"])]
            ELSE c2
  IN [updatedCreature |-> recalculateDerivedStats(c3), toolEffect |-> scaled]

\* ------------------------------------------------------------------------
\* Timed effects and the per-turn tick (processTimedEffect,
\* applyOngoingEffects)
\* ------------------------------------------------------------------------

\* 0.8 + Math.sin(turnsPassed * Math.PI / 3) * 0.3, in millionths.
EchoIntensity(turnsPassed) ==
  CASE turnsPassed % 6 \in {0, 3} -> 800000
    [] turnsPassed % 6 \in {1, 2} -> 1059808
    [] OTHER -> 540192

\* Variant of ChargeComplete that needs one turn more than maxTurns.
ChargeCompleteLate(charge, turnsPassed) ==
  turnsPassed > (IF charge.maxTurns # 0 THEN charge.maxTurns ELSE 3)

\* Math.min(turnsPassed / (maxTurns || 3), 1.0) >= 1.0
ChargeComplete(charge, turnsPassed) ==
  turnsPassed >= (IF charge.maxTurns # 0 THEN charge.maxTurns ELSE 3)

\* Math.floor(perTurnBonus * chargeProgress) while the charge is building.
ChargeBonus(charge, turnsPassed) ==
  IF ChargeComplete(charge, turnsPassed) THEN charge.perTurnBonus
  ELSE FloorDiv(charge.perTurnBonus * turnsPassed,
                IF charge.maxTurns # 0 THEN charge.maxTurns ELSE 3)

\* processTimedEffect(effect, currentTurn, startTurn)
processTimedEffect(effect, currentTurn, startTurn) ==
  LET turnsPassed == currentTurn - startTurn
      charged ==
        IF effect.effectType = "Charge" /\ effect.chargeEffect.present
           /\ ~ChargeComplete(effect.chargeEffect, turnsPassed)
        THEN [effect EXCEPT !.statModifications =
                Merge(@, [s \in {effect.chargeEffect.targetStat} |->
                            ChargeBonus(effect.chargeEffect, turnsPassed)])]
        ELSE effect
  IN IF effect.effectType = "Echo" /\ effect.healthOverTime # 0
     THEN [charged EXCEPT !.healthOverTime =
             RoundDiv(effect.healthOverTime * EchoIntensity(turnsPassed),
                      1000000)]
     ELSE charged

\* Values whose product with 1.15 (resp. 1.1) falls, as a double, just
\* below (resp. beyond) the tie that the exact product sits on, so that
\* Math.round gives one less than the exact rounding (|value| <= 300).
Below115 == {50, 90, 110, 170, 190, 210}

Below110 ==
  {-225, -215, -205, -195, -185, -175, -165, -115, -105, -95, -85, -55,
   -45, -25}

\* Math.round(value * num / den) as the double arithmetic yields it.
ScaleRound(value, num, den, below) ==
  RoundDiv(value * num, den) - (IF value \in below THEN 1 ELSE 0)

\* healthOverTime scaled by difficulty, then by the creature's rarity.
ScaledHealthChange(healthOverTime, difficulty, rarity) ==
  LET byDifficulty ==
        CASE difficulty = "hard" -> ScaleRound(healthOverTime, 115, 100, Below115)
          [] difficulty = "expert" -> ScaleRound(healthOverTime, 125, 100, {})
          [] OTHER -> healthOverTime
  IN CASE rarity = "Legendary" -> ScaleRound(byDifficulty, 12, 10, {})
       [] rarity = "Epic" -> ScaleRound(byDifficulty, 115, 100, Below115)
       [] rarity = "Rare" -> ScaleRound(byDifficulty, 11, 10, Below110)
       [] OTHER -> byDifficulty

\* currentStatMods[stat] = (currentStatMods[stat] || 0) + value, per key.
AddToStatMods(currentStatMods, mods) ==
  [s \in (DOMAIN currentStatMods) \cup (DOMAIN mods) |->
     (IF s \in DOMAIN currentStatMods THEN currentStatMods[s] ELSE 0)
     + (IF s \in DOMAIN mods THEN mods[s] ELSE 0)]

\* The charge branch of the tick fires the final burst for this effect.
ChargeFires(processed, currentTurn) ==
  /\ processed.type = "charge"
  /\ processed.chargeEffect.present
  /\ ChargeComplete(processed.chargeEffect, currentTurn - processed.startTurn)
  /\ processed.chargeEffect.finalBurst # 0

\* The incremental bonus the charge branch adds to currentStatMods (0: none).
ChargeIncrement(processed, currentTurn) ==
  IF processed.type = "charge" /\ processed.chargeEffect.present
     /\ ~ChargeFires(processed, currentTurn)
     /\ processed.chargeEffect.targetStat # "none"
  THEN Max(0, ChargeBonus(processed.chargeEffect,
                          currentTurn - processed.startTurn))
  ELSE 0

\* The body of the .map callback for one effect; acc carries the creature
\* fields and the locals the callback updates: currentHealth,
\* nextAttackBonus, currentStatMods, and the mapped list so far.
TickEffect(acc, effect, maxHealth, rarity, difficulty, currentTurn) ==
  LET processed == processTimedEffect(effect, currentTurn, effect.startTurn)
      mods1 == AddToStatMods(acc.currentStatMods, processed.statModifications)
      health1 ==
        IF processed.healthOverTime # 0
        THEN Min(maxHealth,
                 Max(0, acc.currentHealth
                        + ScaledHealthChange(processed.healthOverTime,
                                             difficulty, rarity)))
        ELSE acc.currentHealth
      increment == ChargeIncrement(processed, currentTurn)
  IN IF ChargeFires(processed, currentTurn)
     THEN [currentHealth |-> health1,
           nextAttackBonus |->
             acc.nextAttackBonus + processed.chargeEffect.finalBurst,
           currentStatMods |-> mods1,
           mapped |-> Append(acc.mapped, [processed EXCEPT !.duration = 0])]
     ELSE [currentHealth |-> health1,
           nextAttackBonus |-> acc.nextAttackBonus,
           currentStatMods |->
             IF increment > 0
             THEN AddToStatMods(mods1,
                    [s \in {processed.chargeEffect.targetStat} |-> increment])
             ELSE mods1,
           mapped |-> Append(acc.mapped,
                             [processed EXCEPT !.duration = @ - 1])]

RECURSIVE TickEffects(_, _, _, _, _, _, _)
\* The .map over activeEffects, in list order, from index i on.
TickEffects(acc, effects, i, maxHealth, rarity, difficulty, currentTurn) ==
  IF i > Len(effects) THEN acc
  ELSE Bind(
         TickEffect(acc, effects[i], maxHealth, rarity, difficulty, currentTurn),
         LAMBDA next : TickEffects(next, effects, i + 1, maxHealth, rarity,
                                   difficulty, currentTurn))

\* Variant of KeepUnexpired that keeps an effect whose duration reached 0.
KeepUntilNegative(effects) == SelectSeq(effects, LAMBDA e : e.duration >= 0)

\* Variant of KeepUnexpired that filters nothing.
KeepEveryEffect(effects) == effects

\* .filter(effect => effect && effect.duration > 0)
KeepUnexpired(effects) == SelectSeq(effects, LAMBDA e : e.duration > 0)

\* battleStats rebuilt from the derived stats and currentStatMods.
StatsFromMods(creature, currentStatMods) ==
  [s \in DOMAIN calculateDerivedStats(creature) |->
     IF s \in DOMAIN currentStatMods
     THEN Max(0, calculateDerivedStats(creature)[s] + currentStatMods[s])
     ELSE calculateDerivedStats(creature)[s]]

\* The .map callback of applyOngoingEffects for one creature.
TickCreature(creature, difficulty, currentTurn) ==
  IF ~creature.present \/ ~creature.hasBattleStats THEN creature
  ELSE
  Bind(TickEffects(
         [currentHealth |-> creature.currentHealth,
          nextAttackBonus |-> creature.nextAttackBonus,
          currentStatMods |-> EmptyMap, mapped |-> <<>>],
         creature.activeEffects, 1, creature.battleStats["maxHealth"],
         creature.rarity, difficulty, currentTurn),
       LAMBDA acc :
         LET statsModified == DOMAIN acc.currentStatMods # {}
         IN [creature EXCEPT
               !.currentHealth = acc.currentHealth,
               !.nextAttackBonus = acc.nextAttackBonus,
               !.activeEffects = KeepUnexpired(acc.mapped),
               !.battleStats =
                 IF statsModified
                 THEN StatsFromMods(creature, acc.currentStatMods)
                 ELSE @,
               !.isDefending = FALSE])

\* Variant of applyOngoingEffects that ticks every creature twice.
TickedTwice(creatures, difficulty, currentTurn) ==
  [i \in 1..Len(creatures) |->
     TickCreature(TickCreature(creatures[i], difficulty, currentTurn),
                  difficulty, currentTurn)]

\* applyOngoingEffects(creatures, difficulty, currentTurn)
applyOngoingEffects(creatures, difficulty, currentTurn) ==
  [i \in 1..Len(creatures) |->
     TickCreature(creatures[i], difficulty, currentTurn)]

\* ------------------------------------------------------------------------
\* Death and field triggers (processDefeatedCreatures)
\* ------------------------------------------------------------------------

\* The effects the death triggers push.
FinalGift(id, startTurn) ==
  MkEffect(id, "Final Gift", "legendary_blessing", "none", 5,
           [physicalAttack |-> 2, magicalAttack |-> 2], 0, startTurn, NoCharge)

EnergyRelease(id, startTurn) ==
  MkEffect(id, "Energy Release", "energy_burst", "none", 2,
           [energyCost |-> -1], 0, startTurn, NoCharge)

EpicEssence(id, startTurn) ==
  MkEffect(id, "Epic Essence", "epic_blessing", "none", 3,
           [physicalAttack |-> 1, magicalAttack |-> 1], 0, startTurn, NoCharge)

GuiltyConscience(id, startTurn) ==
  MkEffect(id, "Guilty Conscience", "debuff", "none", 2,
           [initiative |-> -2, dodgeChance |-> -1], 0, startTurn, NoCharge)

\* The death-rattle of one defeated creature on one ally that survived
\* before it in field order (the i-th of survivingCreatures).
BlessAlly(defeated, ally, id) ==
  IF defeated.rarity = "Legendary"
  THEN [ally EXCEPT
          !.battleStats["physicalAttack"] = @ + 2,
          !.battleStats["magicalAttack"] = @ + 2,
          !.activeEffects = Append(@, FinalGift(id, ally.currentTurn))]
  ELSE IF defeated.energySpecialist
  THEN [ally EXCEPT
          !.activeEffects = Append(@, EnergyRelease(id, ally.currentTurn))]
  ELSE IF defeated.rarity = "Epic"
  THEN [ally EXCEPT
          !.activeEffects = Append(@, EpicEssence(id, ally.currentTurn))]
  ELSE ally

\* The defeated creature has a death-rattle at all.
HasDeathRattle(defeated) ==
  defeated.rarity \in {"Legendary", "Epic"} \/ defeated.energySpecialist

\* Variant of HasRevenge in which only a Legendary is avenged.
RevengeForLegendaryOnly(defeated) == defeated.rarity = "Legendary"

\* The revenge debuff applies for this defeated creature.
HasRevenge(defeated) == defeated.rarity \in {"Legendary", "Epic"}

\* The source dereferences a null creature, or the battleStats of an ally
\* that has none: the call raises a TypeError.
DefeatRaises(acc, creature) ==
  \/ ~creature.present
  \/ /\ creature.currentHealth <= 0
     /\ \/ /\ creature.rarity = "Legendary"
           /\ \E i \in 1..Len(acc.surviving) : ~acc.surviving[i].hasBattleStats
        \/ /\ HasRevenge(creature)
           /\ \E j \in 1..Len(acc.opposing) : ~acc.opposing[j].present

\* Variant of DefeatStep that keeps every creature on the field.
DefeatStepKeepsAll(acc, creature) ==
  IF acc.raised \/ ~creature.present
  THEN [acc EXCEPT !.raised = TRUE]
  ELSE [acc EXCEPT !.surviving = Append(@, creature)]

\* The body of creatures.forEach for one creature.  acc holds
\* survivingCreatures, the opposing field (mutated in place by the source),
\* the next fresh effect id, and whether the call has raised.
DefeatStep(acc, creature) ==
  IF acc.raised \/ DefeatRaises(acc, creature)
  THEN [acc EXCEPT !.raised = TRUE]
  ELSE IF creature.currentHealth > 0
  THEN [acc EXCEPT !.surviving = Append(@, creature)]
  ELSE
  LET nAllies == IF HasDeathRattle(creature) THEN Len(acc.surviving) ELSE 0
      nEnemies == IF HasRevenge(creature) THEN Len(acc.opposing) ELSE 0
  IN [surviving |->
        [i \in 1..Len(acc.surviving) |->
           BlessAlly(creature, acc.surviving[i], acc.nextId + i - 1)],
      opposing |->
        [j \in 1..Len(acc.opposing) |->
           IF HasRevenge(creature)
           THEN [acc.opposing[j] EXCEPT
                   !.activeEffects =
                     Append(@, GuiltyConscience(acc.nextId + nAllies + j - 1,
                                                acc.opposing[j].currentTurn))]
           ELSE acc.opposing[j]],
      nextId |-> acc.nextId + nAllies + nEnemies,
      raised |-> FALSE]

RECURSIVE DefeatSteps(_, _, _)
\* creatures.forEach(...), in field order, from index i on.
DefeatSteps(acc, creatures, i) ==
  IF i > Len(creatures) THEN acc
  ELSE Bind(DefeatStep(acc, creatures[i]),
            LAMBDA next : DefeatSteps(next, creatures, i + 1))

\* processDefeatedCreatures(creatures, opposingCreatures): the returned
\* survivors, the opposing creatures as the call leaves them, the next
\* fresh effect id, and whether the call raised.
processDefeatedCreatures(creatures, opposingCreatures, nextId) ==
  Bind(creatures, LAMBDA field :
    DefeatSteps([surviving |-> <<>>, opposing |-> opposingCreatures,
                 nextId |-> nextId, raised |-> FALSE],
                field, 1))

\* ------------------------------------------------------------------------
\* Combat resolution (processAttack)
\* ------------------------------------------------------------------------

\* Variant of calculateComboBonus without the cap of 25%.
ComboBonusUncapped(comboLevel) ==
  IF comboLevel <= 1 THEN 100 ELSE 100 + 5 * comboLevel

\* calculateComboBonus(consecutiveActions), in hundredths: 1.0 up to one
\* action, then 1 + Math.min(consecutiveActions * 0.05, 0.25).  The function
\* of this name that processAttack imports is taken to be the same.
calculateComboBonus(comboLevel) ==
  IF comboLevel <= 1 THEN 100 ELSE 100 + Min(5 * comboLevel, 25)

\* What calculateDamage (battleCalculations.js) returns.
MkDamageResult(damage, isDodged, isCritical, effectiveness) ==
  [damage |-> damage, isDodged |-> isDodged, isCritical |-> isCritical,
   effectiveness |-> effectiveness]

CriticalStrikeTrauma(id, startTurn) ==
  MkEffect(id, "Critical Strike Trauma", "debuff", "none", 1,
           [physicalDefense |-> -2, magicalDefense |-> -2], 0, startTurn,
           NoCharge)

ElementalWeakness(id, startTurn) ==
  MkEffect(id, "Elemental Weakness", "debuff", "none", 2,
           [physicalDefense |-> -1, magicalDefense |-> -1], 0, startTurn,
           NoCharge)

\* attackType after the 'auto' choice: physical unless magicalAttack is larger.
ChosenAttackType(attacker, attackType) ==
  IF attackType = "auto"
  THEN (IF attacker.battleStats["physicalAttack"]
             >= attacker.battleStats["magicalAttack"]
        THEN "physical" ELSE "magical")
  ELSE attackType

AttackStatOf(attackType) ==
  IF attackType = "physical" THEN "physicalAttack" ELSE "magicalAttack"

\* attackerClone after a pending nextAttackBonus is added to the chosen
\* attack stat and deleted.
ConsumeAttackBonus(attacker, attackType) ==
  IF attacker.nextAttackBonus # 0
  THEN [attacker EXCEPT
          !.battleStats[AttackStatOf(attackType)] = @ + attacker.nextAttackBonus,
          !.nextAttackBonus = 0]
  ELSE attacker

\* defenderClone after the damage and the on-hit procs.  critProc and
\* weakProc are the outcomes of Math.random() < 0.2 and Math.random() < 0.25.
HitDefender(defender, damageResult, critProc, weakProc, id) ==
  LET hurt == [defender EXCEPT
                 !.currentHealth = Max(0, @ - damageResult.damage)]
      trauma == IF damageResult.isCritical /\ critProc
                THEN [hurt EXCEPT !.activeEffects =
                        Append(@, CriticalStrikeTrauma(id, defender.currentTurn))]
                ELSE hurt
  IN IF damageResult.effectiveness \in {"very effective", "effective"}
        /\ weakProc
     THEN [trauma EXCEPT !.activeEffects =
             Append(@, ElementalWeakness(id + 1, defender.currentTurn))]
     ELSE trauma

\* Variant of DefenderAfterAttack that rolls for the trauma on every hit,
\* critical or not.
DefenderTraumaOnAnyHit(defender, damageResult, critProc, weakProc, id) ==
  IF damageResult.isDodged THEN defender
  ELSE HitDefender(defender, [damageResult EXCEPT !.isCritical = TRUE],
                   critProc, weakProc, id)

\* Variant of DefenderAfterAttack that hits whether or not the attack was
\* dodged.
DefenderHitDespiteDodge(defender, damageResult, critProc, weakProc, id) ==
  HitDefender(defender, damageResult, critProc, weakProc, id)

\* defenderClone when processAttack returns: untouched by a dodged attack.
DefenderAfterAttack(defender, damageResult, critProc, weakProc, id) ==
  IF damageResult.isDodged THEN defender
  ELSE HitDefender(defender, damageResult, critProc, weakProc, id)

\* Variant of ActualDamage that reports the damage of the formula, not the
\* health the defender lost.
UnclampedDamage(defender, defenderClone, damageResult) ==
  IF damageResult.isDodged THEN 0 ELSE damageResult.damage

\* let actualDamage = 0; if (!isDodged) actualDamage = previous - current.
ActualDamage(defender, defenderClone, damageResult) ==
  IF damageResult.isDodged THEN 0
  ELSE defender.currentHealth - defenderClone.currentHealth

\* Variant of AttackDamageFields that returns the damageResult of the
\* formula as it came.
StaleDamageResultFields(actualDamage, damageResult) ==
  [damage |-> actualDamage, finalDamage |-> actualDamage,
   totalDamage |-> actualDamage, damageDealt |-> actualDamage,
   actualDamage |-> actualDamage, damageResult |-> damageResult]

\* The damage of an attack under the five names of the result, and in the
\* returned damageResult.
AttackDamageFields(actualDamage, damageResult) ==
  [damage |-> actualDamage, finalDamage |-> actualDamage,
   totalDamage |-> actualDamage, damageDealt |-> actualDamage,
   actualDamage |-> actualDamage,
   damageResult |-> [damageResult EXCEPT !.damage = actualDamage]]

\* The result for an attacker or defender that is missing or has no
\* battleStats.
\* Variant of InvalidAttackResult that has already consumed the attacker's
\* pending bonus.
SentinelAfterBonus(attacker, defender, attackType) ==
  [updatedAttacker |-> [attacker EXCEPT !.nextAttackBonus = 0],
   updatedDefender |-> defender,
   damage |-> 0, finalDamage |-> 0, totalDamage |-> 0, damageDealt |-> 0,
   actualDamage |-> 0,
   damageResult |-> MkDamageResult(0, FALSE, FALSE, "normal"),
   isCritical |-> FALSE, attackType |-> attackType, isBlocked |-> FALSE,
   comboMultiplier |-> 0, attackStat |-> 0, invalid |-> TRUE]

InvalidAttackResult(attacker, defender, attackType) ==
  [updatedAttacker |-> attacker, updatedDefender |-> defender,
   damage |-> 0, finalDamage |-> 0, totalDamage |-> 0, damageDealt |-> 0,
   actualDamage |-> 0,
   damageResult |-> MkDamageResult(0, FALSE, FALSE, "normal"),
   isCritical |-> FALSE, attackType |-> attackType, isBlocked |-> FALSE,
   comboMultiplier |-> 0, attackStat |-> 0, invalid |-> TRUE]

\* processAttack(attacker, defender, attackType, comboLevel).  damageResult
\* is what calculateDamage returns for the call; critProc and weakProc are
\* the two random draws; id is the clock value the new effects take their
\* ids from.  attackStat records the value of the chosen attack stat that
\* calculateDamage was given.
processAttack(attacker, defender, attackType, comboLevel, damageResult, critProc, weakProc, id) ==
  IF ~attacker.present \/ ~defender.present
     \/ ~attacker.hasBattleStats \/ ~defender.hasBattleStats
  THEN InvalidAttackResult(attacker, defender, attackType)
  ELSE
  LET chosen == ChosenAttackType(attacker, attackType)
      attackerClone == ConsumeAttackBonus(attacker, chosen)
      defenderClone ==
        DefenderAfterAttack(defender, damageResult, critProc, weakProc, id)
      actualDamage == ActualDamage(defender, defenderClone, damageResult)
  IN AttackDamageFields(actualDamage, damageResult)
     @@ [updatedAttacker |-> attackerClone,
         updatedDefender |-> defenderClone,
         isCritical |-> damageResult.isCritical, attackType |-> chosen,
         isBlocked |-> damageResult.isDodged,
         comboMultiplier |-> calculateComboBonus(comboLevel),
         attackStat |-> attackerClone.battleStats[AttackStatOf(chosen)],
         invalid |-> FALSE]

\* ------------------------------------------------------------------------
\* Spells (getSpellEffect, applySpell)
\* ------------------------------------------------------------------------

\* A spell effect definition.  damage, healing, selfHeal and prepareDamage
\* are in 1/200 (they are products with magicPower = 1 + casterMagic * 0.15
\* and with 2.5 or 1.2); statChanges, healthOverTime and duration are whole.
\* hasDrain stands for the statDrain / statGain pair of the Drain spells.
MkSpellEffect(damage200, healing200, selfHeal200, hot, statChanges, hasDrain, armorPiercing, duration, prepareDamage200) ==
  [damage200 |-> damage200, healing200 |-> healing200,
   selfHeal200 |-> selfHeal200, healthOverTime |-> hot,
   statChanges |-> statChanges, hasDrain |-> hasDrain,
   armorPiercing |-> armorPiercing, duration |-> duration,
   prepareDamage200 |-> prepareDamage200]

StatDrain == [physicalAttack |-> -3, magicalAttack |-> -3]

StatGain == [physicalAttack |-> 2, magicalAttack |-> 2]

\* value * magicPower in 1/200, for magicPower = (20 + 3 * casterMagic) / 20.
TimesMagicPower200(value, casterMagic) == value * (20 + 3 * casterMagic) * 10

StaminaShieldChanges ==
  [physicalDefense |-> 8, magicalDefense |-> 8, maxHealth |-> 15]

SpeedEchoChanges == [initiative |-> 5, dodgeChance |-> 3, criticalChance |-> 3]

\* The Drain effect (Scrypto Surge) and the Charge effect (Shardstorm).
SpellDrainEffect(casterMagic) ==
  MkSpellEffect(TimesMagicPower200(18, casterMagic), 0,
                TimesMagicPower200(10, casterMagic), 0, EmptyMap, TRUE,
                FALSE, 2, 0)

SpellChargeEffect(casterMagic) ==
  MkSpellEffect(0, 0, 0, 0, EmptyMap, FALSE, FALSE, 1,
                TimesMagicPower200(35, casterMagic))

\* baseEffects[type] of getSpellEffect, with its fallback.
SpellBaseEffect(type, casterMagic) ==
  CASE type = "energy" ->
         MkSpellEffect(TimesMagicPower200(20, casterMagic), 0, 0, 0, EmptyMap,
                       FALSE, TRUE, 0, 0)
    [] type = "strength" -> SpellDrainEffect(casterMagic)
    [] type = "magic" -> SpellChargeEffect(casterMagic)
    [] type = "stamina" ->
         MkSpellEffect(0, TimesMagicPower200(15, casterMagic), 0, 0,
                       StaminaShieldChanges, FALSE, FALSE, 3, 0)
    [] type = "speed" ->
         MkSpellEffect(0, 0, 0, 3, SpeedEchoChanges, FALSE, FALSE, 3, 0)
    [] OTHER ->
         MkSpellEffect(TimesMagicPower200(10, casterMagic), 0, 0, 0, EmptyMap,
                       FALSE, FALSE, 2, 0)

\* getSpellEffect(spell, casterMagic): never null; a spell that lacks
\* spell_effect or spell_type gets the "safe default" { damage: 5,
\* duration: 1 }.
getSpellEffect(spell, casterMagic) ==
  LET effect == spell.spell_effect
      type == spell.spell_type
      base == SpellBaseEffect(type, casterMagic)
      mp20 == 20 + 3 * casterMagic
  IN
  IF effect = "none" \/ type = "none"
  THEN MkSpellEffect(1000, 0, 0, 0, EmptyMap, FALSE, FALSE, 1, 0)
  ELSE
  CASE effect = "Surge" ->
         IF type = "energy"
         THEN MkSpellEffect(TimesMagicPower200(25, casterMagic), 0, 0, 0,
                            EmptyMap, FALSE, TRUE, 0, 0)
         ELSE MkSpellEffect(
                IF base.damage200 # 0 THEN (base.damage200 * 5) \div 2
                ELSE 7500,
                0, 0, 0, EmptyMap, FALSE, TRUE, 0, 0)
    [] effect = "Shield" ->
         IF type = "stamina"
         THEN MkSpellEffect(0, TimesMagicPower200(15, casterMagic), 0, 0,
                            StaminaShieldChanges, FALSE, FALSE, 3, 0)
         ELSE MkSpellEffect(0, TimesMagicPower200(15, casterMagic), 0, 0,
                            [physicalDefense |-> 12, magicalDefense |-> 12,
                             maxHealth |-> 20], FALSE, FALSE, 3, 0)
    [] effect = "Echo" ->
         IF type = "speed"
         THEN MkSpellEffect(0, 0, 0, 3, SpeedEchoChanges, FALSE, FALSE, 3, 0)
         ELSE MkSpellEffect(
                0, 0, 0,
                IF base.healing200 # 0
                THEN RoundDiv(base.healing200 * mp20, 12000)
                ELSE IF base.damage200 # 0
                THEN RoundDiv(-(base.damage200 * mp20), 12000)
                ELSE 0,
                [s \in DOMAIN base.statChanges |->
                   RoundDiv(base.statChanges[s] * 3, 10)],
                FALSE, FALSE, 3, 0)
    [] effect = "Drain" -> SpellDrainEffect(casterMagic)
    [] effect = "Charge" -> SpellChargeEffect(casterMagic)
    [] OTHER ->
         [base EXCEPT
            !.damage200 = (@ * 6) \div 5,
            !.healing200 = (@ * 6) \div 5,
            !.statChanges = [s \in DOMAIN @ |-> RoundDiv(@[s] * 115, 100)]]

\* The spellEffect of a call that failed: null.
NullSpellEffect ==
  [isNull |-> TRUE, damage |-> 0, healing |-> 0, selfHeal |-> 0,
   healthOverTime |-> 0, statChanges |-> EmptyMap, hasDrain |-> FALSE,
   armorPiercing |-> FALSE, actualDamage |-> 0, wasCritical |-> FALSE,
   duration |-> 0]

\* Variant of ScaleCapped that ignores the cap.
ScaleUncapped(value200, power200, cap) ==
  IF value200 = 0 THEN 0 ELSE RoundDiv(value200 * power200, 40000)

\* Math.round(Math.min(value * multiplier, cap)) for a value in 1/200 and a
\* multiplier in 1/200; 0 for a missing (or zero) value.
ScaleCapped(value200, power200, cap) ==
  IF value200 = 0 THEN 0
  ELSE IF value200 * power200 >= cap * 40000 THEN cap
  ELSE RoundDiv(value200 * power200, 40000)

\* scaledSpellEffect before the damage step.
ScaleSpellEffect(spellEffect, power200) ==
  [isNull |-> FALSE,
   damage |-> ScaleCapped(spellEffect.damage200, power200, 100),
   healing |-> ScaleCapped(spellEffect.healing200, power200, 80),
   selfHeal |-> ScaleCapped(spellEffect.selfHeal200, power200, 40),
   healthOverTime |->
     IF spellEffect.healthOverTime # 0
     THEN RoundDiv(spellEffect.healthOverTime * power200, 200)
     ELSE 0,
   statChanges |->
     [s \in DOMAIN spellEffect.statChanges |->
        RoundDiv(Min(Abs(spellEffect.statChanges[s]), 12)
                   * Sign(spellEffect.statChanges[s]) * Min(power200, 300),
                 200)],
   hasDrain |-> spellEffect.hasDrain,
   armorPiercing |-> spellEffect.armorPiercing,
   actualDamage |-> 0, wasCritical |-> FALSE,
   duration |-> spellEffect.duration]

\* finalDamage of a damaging spell: the scaled damage, times 1.5 on a
\* critical hit, plus 20% when the spell pierces armor.
SpellFinalDamage(scaled, power200, isCritical) ==
  LET crit == IF isCritical THEN RoundDiv(scaled.damage * 3, 2)
              ELSE scaled.damage
  IN IF scaled.armorPiercing \/ power200 >= 260
     THEN crit + RoundDiv(crit, 5)
     ELSE crit

\* The active effect applySpell attaches.
SpellActiveEffect(spell, spellEffect, scaled, currentTurn, id) ==
  MkEffect(id, "Spell Effect",
           IF spell.spell_effect = "Charge" /\ spellEffect.prepareDamage200 # 0
           THEN "charge"
           ELSE IF spell.spell_type = "none" THEN "magic"
           ELSE spell.spell_type,
           spell.spell_effect, spellEffect.duration, scaled.statChanges,
           scaled.healthOverTime, currentTurn, NoCharge)

\* A stat drain that takes from the target whatever the caster defines.
DrainedWithoutCasterCheck(targetStats, casterStats) ==
  [s \in DOMAIN targetStats |->
     IF s \in DOMAIN StatDrain
     THEN Max(0, targetStats[s] + StatDrain[s])
     ELSE targetStats[s]]

\* Stat drain from the target to the caster, for the stats both define.
DrainedTargetStats(targetStats, casterStats) ==
  [s \in DOMAIN targetStats |->
     IF s \in DOMAIN StatDrain /\ s \in DOMAIN casterStats
     THEN Max(0, targetStats[s] + StatDrain[s])
     ELSE targetStats[s]]

GainedCasterStats(targetStats, casterStats) ==
  [s \in DOMAIN casterStats |->
     IF s \in DOMAIN StatDrain /\ s \in DOMAIN targetStats
     THEN casterStats[s] + (IF s \in DOMAIN StatGain THEN StatGain[s] ELSE 0)
     ELSE casterStats[s]]

\* The source reads casterClone.battleStats.maxHealth (self heal) or
\* casterClone.battleStats[stat] (stat drain) of a caster without
\* battleStats: the call raises a TypeError.
SpellRaises(caster, target, scaled) ==
  /\ ~caster.hasBattleStats
  /\ \/ scaled.selfHeal # 0 /\ caster.id # target.id
     \/ scaled.hasDrain

\* The result of a call that returns its arguments with a null effect.
SpellFailed(caster, target) ==
  [updatedCaster |-> caster, updatedTarget |-> target,
   spellEffect |-> NullSpellEffect, raised |-> FALSE]

\* applySpell(caster, target, spell, difficulty, currentTurn).  isCritical
\* is the outcome of the spell's critical roll; id is the identifier the new
\* effect draws from the clock.
applySpell(caster, target, spell, difficulty, currentTurn, isCritical, id) ==
  IF ~caster.present \/ ~target.present \/ ~spell.present
     \/ ~caster.hasStats \/ ~target.hasBattleStats
  THEN SpellFailed(caster, target)
  ELSE
  LET casterMagic == IF caster.stats["magic"] # 0 THEN caster.stats["magic"]
                     ELSE 5
      power200 == calculateEffectPower(spell.spell_type, TRUE, caster.stats,
                                       difficulty)
      spellEffect == getSpellEffect(spell, casterMagic)
      scaled0 == ScaleSpellEffect(spellEffect, power200)
      finalDamage == SpellFinalDamage(scaled0, power200, isCritical)
      scaled == IF scaled0.damage # 0
                THEN [scaled0 EXCEPT !.actualDamage = finalDamage,
                                     !.wasCritical = isCritical]
                ELSE scaled0
      t0 == [target EXCEPT !.currentTurn = currentTurn]
      c0 == [caster EXCEPT !.currentTurn = currentTurn]
      t1 == IF scaled.damage # 0
            THEN [t0 EXCEPT !.currentHealth = Max(0, @ - finalDamage)]
            ELSE t0
      t2 == IF scaled.healing # 0 /\ caster.id = target.id
            THEN [t1 EXCEPT !.currentHealth =
                    Min(@ + scaled.healing, t1.battleStats["maxHealth"])]
            ELSE t1
      c1 == IF scaled.selfHeal # 0 /\ caster.id # target.id
            THEN [c0 EXCEPT !.currentHealth =
                    Min(@ + scaled.selfHeal, c0.battleStats["maxHealth"])]
            ELSE c0
      t3 == [t2 EXCEPT !.battleStats =
               AddImmediateChanges(@, scaled.statChanges)]
      t4 == IF scaled.hasDrain
            THEN [t3 EXCEPT !.battleStats =
                    DrainedTargetStats(@, c1.battleStats)]
            ELSE t3
      c2 == IF scaled.hasDrain
            THEN [c1 EXCEPT !.battleStats =
                    GainedCasterStats(t3.battleStats, @)]
            ELSE c1
      t5 == IF spellEffect.duration > 0
            THEN [t4 EXCEPT !.activeEffects =
                    WithNewEffect(@, SpellActiveEffect(spell, spellEffect,
                                                       scaled, currentTurn,
                                                       id))]
            ELSE t4
      t6 == IF DOMAIN scaled.statChanges # {}
            THEN recalculateDerivedStats(t5)
            ELSE t5
  IN IF SpellRaises(caster, target, scaled)
     THEN [updatedCaster |-> caster, updatedTarget |-> target,
           spellEffect |-> NullSpellEffect, raised |-> TRUE]
     ELSE [updatedCaster |-> c2, updatedTarget |-> t6,
           spellEffect |-> scaled, raised |-> FALSE]

\* ------------------------------------------------------------------------
\* defendCreature
\* ------------------------------------------------------------------------

\* getRarityMultiplier(rarity) - 1 (battleCalculations.js), in hundredths.
RarityBonus100(rarity) ==
  CASE rarity = "Legendary" -> 10
    [] rarity = "Epic" -> 7
    [] rarity = "Rare" -> 3
    [] OTHER -> 0

\* boost + Math.round(boost * rarityBonus), boost = Math.round(defense * 0.5)
\* with a defense of 0 read as 50.
DefenseBoost(defense, rarity) ==
  LET boost == RoundDiv(IF defense # 0 THEN defense ELSE 50, 2)
  IN boost + RoundDiv(boost * RarityBonus100(rarity), 100)

DefensiveStance(creature, id) ==
  MkEffect(id, "Defensive Stance", "defense", "Shield", 1,
           [physicalDefense |->
              DefenseBoost(creature.battleStats["physicalDefense"],
                           creature.rarity),
            magicalDefense |->
              DefenseBoost(creature.battleStats["magicalDefense"],
                           creature.rarity)],
           0, creature.currentTurn, NoCharge)

\* defendCreature(creature, difficulty)
defendCreature(creature, id) ==
  IF ~creature.present \/ ~creature.hasBattleStats THEN creature
  ELSE [creature EXCEPT
          !.isDefending = TRUE,
          !.activeEffects = Append(@, DefensiveStance(creature, id))]

\* ------------------------------------------------------------------------
\* Turn orchestrator (processTurn and its helpers)
\* ------------------------------------------------------------------------

\* Variant of getMaxEnergy with the former bonus of half a point per
\* creature.
MaxEnergyHalfPerCreature(creatures, difficulty) ==
  (CASE difficulty = "easy" -> 10
     [] difficulty = "medium" -> 12
     [] difficulty = "hard" -> 15
     [] difficulty = "expert" -> 18
     [] OTHER -> 15)
  + FloorDiv(Len(creatures), 2)

\* getMaxEnergy(creatures, difficulty)
getMaxEnergy(creatures, difficulty) ==
  (CASE difficulty = "easy" -> 10
     [] difficulty = "medium" -> 12
     [] difficulty = "hard" -> 15
     [] difficulty = "expert" -> 18
     [] OTHER -> 15)
  + FloorDiv(Len(creatures), 4)

\* One creature's share of the regeneration, in 1/2000:
\* stats.energy * 0.1 * rarity factor * (1 + form * 0.05), plus 0.5 for an
\* energy specialist.
EnergyShare2000(creature) ==
  (IF creature.hasStats /\ creature.stats["energy"] # 0
   THEN creature.stats["energy"]
        * (CASE creature.rarity = "Legendary" -> 13
             [] creature.rarity = "Epic" -> 12
             [] creature.rarity = "Rare" -> 11
             [] OTHER -> 10)
        * (20 + creature.form)
   ELSE 0)
  + (IF creature.energySpecialist THEN 1000 ELSE 0)

RECURSIVE SumEnergyShares(_, _)
SumEnergyShares(creatures, i) ==
  IF i > Len(creatures) THEN 0
  ELSE EnergyShare2000(creatures[i]) + SumEnergyShares(creatures, i + 1)

\* The reduce callbacks of calculateEnergyRegen read creature.stats and
\* creature.specialty_stats: a null creature makes the call raise a
\* TypeError.
EnergyRegenRaises(creatures) ==
  \E i \in 1..Len(creatures) : ~creatures[i].present

\* calculateEnergyRegen(creatures, difficulty)
calculateEnergyRegen(creatures, difficulty) ==
  RoundDiv(
    (CASE difficulty = "easy" -> 2
       [] difficulty = "medium" -> 3
       [] difficulty = "hard" -> 4
       [] difficulty = "expert" -> 5
       [] OTHER -> 3) * 2000
    + SumEnergyShares(creatures, 1),
    2000)

\* getMaxHandSize(difficulty)
getMaxHandSize(difficulty) ==
  CASE difficulty = "easy" -> 5
    [] difficulty = "medium" -> 4
    [] difficulty = "hard" -> 3
    [] difficulty = "expert" -> 3
    [] OTHER -> 4

\* Variant of the draw phase that still draws into a hand at the cap.
DrawAtCap(hand, deck, difficulty) ==
  IF Len(hand) <= getMaxHandSize(difficulty) /\ Len(deck) > 0
  THEN [hand |-> Append(hand, Head(deck)), deck |-> Tail(deck)]
  ELSE [hand |-> hand, deck |-> deck]

\* The draw phase for one side: the first deck card moves to the hand.
DrawCard(hand, deck, difficulty) ==
  IF Len(hand) < getMaxHandSize(difficulty) /\ Len(deck) > 0
  THEN [hand |-> Append(hand, Head(deck)), deck |-> Tail(deck)]
  ELSE [hand |-> hand, deck |-> deck]

\* processTurn(gameState, difficulty): the returned state.  gameState.turn
\* is read, never written; nextId is the next fresh effect id.
processTurn(gs, difficulty, nextId) ==
  LET tickedPlayer == applyOngoingEffects(gs.playerField, difficulty, gs.turn)
      tickedEnemy == applyOngoingEffects(gs.enemyField, difficulty, gs.turn)
      playerDraw == DrawCard(gs.playerHand, gs.playerDeck, difficulty)
      enemyDraw == DrawCard(gs.enemyHand, gs.enemyDeck, difficulty)
      NewState(sweep1, sweep2) ==
        [playerField |-> sweep2.opposing,
         enemyField |-> sweep2.surviving,
         playerEnergy |->
           Min(gs.playerEnergy
                 + calculateEnergyRegen(gs.playerField, difficulty),
               getMaxEnergy(gs.playerField, difficulty)),
         enemyEnergy |->
           Min(gs.enemyEnergy
                 + calculateEnergyRegen(gs.enemyField, difficulty),
               getMaxEnergy(gs.enemyField, difficulty)),
         playerHand |-> playerDraw.hand, playerDeck |-> playerDraw.deck,
         enemyHand |-> enemyDraw.hand, enemyDeck |-> enemyDraw.deck,
         turn |-> gs.turn,
         nextId |-> sweep2.nextId,
         raised |-> \/ EnergyRegenRaises(gs.playerField)
                    \/ EnergyRegenRaises(gs.enemyField)
                    \/ sweep1.raised
                    \/ sweep2.raised]
  IN Bind(processDefeatedCreatures(tickedPlayer, tickedEnemy, nextId),
          LAMBDA sweep1 :
            Bind(processDefeatedCreatures(sweep1.opposing, sweep1.surviving,
                                          sweep1.nextId),
                 LAMBDA sweep2 : NewState(sweep1, sweep2)))

\* statsModified of the tick of one creature with battleStats: some processed
\* effect brought a stat modification.
StatsModified(creature, difficulty, currentTurn) ==
  DOMAIN TickEffects(
           [currentHealth |-> creature.currentHealth,
            nextAttackBonus |-> creature.nextAttackBonus,
            currentStatMods |-> EmptyMap, mapped |-> <<>>],
           creature.activeEffects, 1, creature.battleStats["maxHealth"],
           creature.rarity, difficulty, currentTurn).currentStatMods # {}

\* The creature of the field with the id, or the fallback when the field
\* holds none.
WithId(field, id, fallback) ==
  IF \E i \in 1..Len(field) : field[i].id = id
  THEN field[CHOOSE i \in 1..Len(field) : field[i].id = id]
  ELSE fallback

\* A creature object of the caller's field once processTurn has returned;
\* final is the state in which the death sweeps left the object the tick
\* returned for it.  The tick returns a creature without battleStats as the
\* object it was given.  For the others it returns a spread of the input
\* with a fresh activeEffects array, and with a fresh battleStats object
\* only when statsModified: otherwise the += 2 of a Legendary death lands in
\* the battleStats object of the input.
GivenCreatureAfter(creature, final, difficulty, currentTurn) ==
  IF ~creature.present \/ ~creature.hasBattleStats THEN final
  ELSE IF StatsModified(creature, difficulty, currentTurn) THEN creature
  ELSE [creature EXCEPT !.battleStats = final.battleStats]

\* The gameState object the caller passed to processTurn, as the call
\* leaves it: newState = {...gameState} shares the hand arrays, which
\* push() extends in place, and the creature objects of the fields.
GivenAfterTurn(gs, difficulty, nextId) ==
  LET tickedPlayer == applyOngoingEffects(gs.playerField, difficulty, gs.turn)
      tickedEnemy == applyOngoingEffects(gs.enemyField, difficulty, gs.turn)
      Given(sweep1, sweep2) ==
        IF \/ EnergyRegenRaises(gs.playerField)
           \/ EnergyRegenRaises(gs.enemyField)
           \/ sweep1.raised
           \/ sweep2.raised
        THEN gs
        ELSE
        [gs EXCEPT
           !.playerField =
             [i \in 1..Len(gs.playerField) |->
                GivenCreatureAfter(
                  gs.playerField[i],
                  WithId(sweep2.opposing, gs.playerField[i].id,
                         tickedPlayer[i]),
                  difficulty, gs.turn)],
           !.enemyField =
             [j \in 1..Len(gs.enemyField) |->
                GivenCreatureAfter(
                  gs.enemyField[j],
                  WithId(sweep2.surviving, gs.enemyField[j].id,
                         sweep1.opposing[j]),
                  difficulty, gs.turn)],
           !.playerHand =
             DrawCard(gs.playerHand, gs.playerDeck, difficulty).hand,
           !.enemyHand =
             DrawCard(gs.enemyHand, gs.enemyDeck, difficulty).hand]
  IN Bind(processDefeatedCreatures(tickedPlayer, tickedEnemy, nextId),
          LAMBDA sweep1 :
            Bind(processDefeatedCreatures(sweep1.opposing, sweep1.surviving,
                                          sweep1.nextId),
                 LAMBDA sweep2 : Given(sweep1, sweep2)))

\* ------------------------------------------------------------------------
\* The battle as a state machine
\* ------------------------------------------------------------------------

VARIABLES
  playerField, enemyField,     \* GameState: the two fields (sequences of creatures)
  playerEnergy, enemyEnergy,   \* the two energy pools
  playerHand, playerDeck,      \* hands and decks (sequences of card numbers)
  enemyHand, enemyDeck,
  turn,                        \* gameState.turn
  difficulty,                  \* the difficulty of the battle
  incrementFirst,              \* the caller advances turn before processTurn
  nextId,                      \* the next identifier the clock hands out
  opsDone,                     \* operations applied so far (processTurn excluded)
  born,                        \* history: every effect ever attached
  call,                        \* the last operation and its arguments
  ret                          \* what the last operation returned

gameVars ==
  <<playerField, enemyField, playerEnergy, enemyEnergy, playerHand,
    playerDeck, enemyHand, enemyDeck, turn, difficulty, incrementFirst>>

historyVars == <<nextId, opsDone, born>>

vars == <<gameVars, historyVars, call, ret>>

\* Bounds of the battle specification.
MaxOps == 2

MaxTurn == 5

\* creature.stats and the derived stats of a creature.
BaseAttributes(energy, strength, magic, stamina, speed) ==
  [energy |-> energy, strength |-> strength, magic |-> magic,
   stamina |-> stamina, speed |-> speed]

DerivedStats(pa, ma, pd, md, mh, ini, cc, dc, ec) ==
  [physicalAttack |-> pa, magicalAttack |-> ma, physicalDefense |-> pd,
   magicalDefense |-> md, maxHealth |-> mh, initiative |-> ini,
   criticalChance |-> cc, dodgeChance |-> dc, energyCost |-> ec]

\* The creatures of the battle: a Common, a wounded Legendary energy
\* specialist and an Epic.
Knight ==
  MkCreature(1, "Common", FALSE, 1, 0, EmptyMap,
             BaseAttributes(6, 8, 8, 6, 12),
             DerivedStats(12, 9, 40, 8, 30, 6, 5, 3, 5), 30)

Oracle ==
  MkCreature(2, "Legendary", TRUE, 0, 0, EmptyMap,
             BaseAttributes(10, 5, 12, 7, 8),
             DerivedStats(8, 14, 10, 12, 40, 5, 4, 2, 6), 9)

Raider ==
  MkCreature(3, "Epic", FALSE, 2, 0, EmptyMap,
             BaseAttributes(4, 11, 3, 9, 7),
             DerivedStats(15, 6, 20, 9, 25, 7, 6, 4, 4), 25)

\* The inputs the battle draws from.  A position is a side and an index
\* into its field.
BattleDifficulties == {"medium", "expert"}

BattleTools ==
  {MkTool("magic", "Shield"), MkTool("stamina", "Charge"),
   MkTool("stamina", "Echo")}

ToolTargets == {<<"player", 1>>}

\* caster position, target position, spell
BattleCasts ==
  {<<<<"player", 1>>, <<"enemy", 1>>, MkSpell("strength", "Drain")>>,
   <<<<"player", 1>>, <<"player", 1>>, MkSpell("stamina", "Shield")>>}

Defenders == {<<"player", 1>>, <<"enemy", 1>>}

\* attacker position, defender position
BattleAttacks ==
  {<<<<"player", 1>>, <<"enemy", 1>>>>, <<<<"enemy", 1>>, <<"player", 2>>>>}

BattleDamageResults ==
  {MkDamageResult(9, FALSE, TRUE, "normal"),
   MkDamageResult(60, FALSE, FALSE, "normal")}

FieldOf(side) == IF side = "player" THEN playerField ELSE enemyField

\* The position holds a creature.
Occupied(pos) == pos[2] <= Len(FieldOf(pos[1]))

At(pos) == FieldOf(pos[1])[pos[2]]

\* Every effect carried on a field, with the id of its creature.
EffectsOn(field) ==
  UNION {{[owner |-> field[i].id, effect |-> field[i].activeEffects[k]] :
            k \in 1..Len(field[i].activeEffects)} : i \in 1..Len(field)}

\* The caller stores the two fields an operation produced; the history
\* records the effects that are new, with the turn at which they appeared.
Store(newPlayer, newEnemy, newTurn) ==
  \E new \in {{x \in EffectsOn(newPlayer) \cup EffectsOn(newEnemy) :
                 x.effect.id >= nextId}} :
     /\ playerField' = newPlayer
     /\ enemyField' = newEnemy
     /\ turn' = newTurn
     /\ nextId' = IF new = {} THEN nextId
                  ELSE 1 + CHOOSE m \in {x.effect.id : x \in new} :
                             \A x \in new : x.effect.id <= m
     /\ born' = born \cup
                  {[id |-> x.effect.id, owner |-> x.owner, turn |-> newTurn,
                    effect |-> x.effect] : x \in new}

\* The caller's replacement of the creature at a position.
StoreAt(pos, creature) ==
  IF pos[1] = "player"
  THEN Store([playerField EXCEPT ![pos[2]] = creature], enemyField, turn)
  ELSE Store(playerField, [enemyField EXCEPT ![pos[2]] = creature], turn)

\* The caller's replacement of two creatures; the second is stored last.
StoreBoth(pos1, creature1, pos2, creature2) ==
  \E fields \in
       {[[player |-> playerField, enemy |-> enemyField]
           EXCEPT ![pos1[1]][pos1[2]] = creature1,
                  ![pos2[1]][pos2[2]] = creature2]} :
     Store(fields.player, fields.enemy, turn)

Init ==
  /\ playerField = <<Knight, Oracle>>
  /\ enemyField = <<Raider>>
  /\ playerEnergy = 3
  /\ enemyEnergy = 3
  /\ playerHand = <<1, 2, 3>>
  /\ playerDeck = <<4, 5>>
  /\ enemyHand = <<6, 7>>
  /\ enemyDeck = <<8>>
  /\ turn = 1
  /\ difficulty \in BattleDifficulties
  /\ incrementFirst \in BOOLEAN
  /\ nextId = 1
  /\ opsDone = 0
  /\ born = {}
  /\ call = [op |-> "none"]
  /\ ret = [op |-> "none"]

\* The rest of an operation that is not processTurn.
Operation(name) ==
  /\ opsDone < MaxOps
  /\ opsDone' = opsDone + 1
  /\ call' = [op |-> name]
  /\ UNCHANGED <<playerEnergy, enemyEnergy, playerHand, playerDeck,
                 enemyHand, enemyDeck, difficulty, incrementFirst, ret>>

\* The caller applies a tool to a creature and stores updatedCreature.
ApplyTool ==
  \E pos \in ToolTargets, tool \in BattleTools :
    /\ Occupied(pos)
    /\ Operation("applyTool")
    /\ \E r \in {applyTool(At(pos), tool, difficulty, turn, nextId)} :
         StoreAt(pos, r.updatedCreature)

\* The caller casts a spell and stores updatedCaster, then updatedTarget.
ApplySpell ==
  \E cast \in BattleCasts, isCritical \in BOOLEAN :
    /\ Occupied(cast[1])
    /\ Occupied(cast[2])
    /\ Operation("applySpell")
    /\ \E r \in {applySpell(At(cast[1]), At(cast[2]), cast[3], difficulty,
                            turn, isCritical, nextId)} :
         /\ ~r.raised
         /\ StoreBoth(cast[1], r.updatedCaster, cast[2], r.updatedTarget)

\* The caller puts a creature in defensive stance.
Defend ==
  \E pos \in Defenders :
    /\ Occupied(pos)
    /\ Operation("defendCreature")
    /\ \E r \in {defendCreature(At(pos), nextId)} : StoreAt(pos, r)

\* One creature attacks another; the caller stores both snapshots.
Attack ==
  \E attack \in BattleAttacks, damageResult \in BattleDamageResults,
     critProc \in BOOLEAN, weakProc \in BOOLEAN :
    /\ Occupied(attack[1])
    /\ Occupied(attack[2])
    /\ Operation("processAttack")
    /\ \E r \in {processAttack(At(attack[1]), At(attack[2]), "auto", 0,
                               damageResult, critProc, weakProc, nextId)} :
         StoreBoth(attack[1], r.updatedAttacker, attack[2], r.updatedDefender)

\* The caller advances the turn and runs processTurn (in either order).
ProcessTurn ==
  /\ turn < MaxTurn
  /\ \E r \in {processTurn(
                  [playerField |-> playerField, enemyField |-> enemyField,
                   playerEnergy |-> playerEnergy, enemyEnergy |-> enemyEnergy,
                   playerHand |-> playerHand, playerDeck |-> playerDeck,
                   enemyHand |-> enemyHand, enemyDeck |-> enemyDeck,
                   turn |-> IF incrementFirst THEN turn + 1 ELSE turn],
                  difficulty, nextId)} :
        /\ ~r.raised
        /\ Store(r.playerField, r.enemyField, turn + 1)
        /\ playerEnergy' = r.playerEnergy
        /\ enemyEnergy' = r.enemyEnergy
        /\ playerHand' = r.playerHand
        /\ playerDeck' = r.playerDeck
        /\ enemyHand' = r.enemyHand
        /\ enemyDeck' = r.enemyDeck
  /\ call' = [op |-> "processTurn"]
  /\ UNCHANGED <<difficulty, incrementFirst, opsDone, ret>>

Next ==
  \/ ApplyTool
  \/ ApplySpell
  \/ Defend
  \/ Attack
  \/ ProcessTurn

Spec == Init /\ [][Next]_vars

\* The creatures on two fields.
CreaturesOn(player, enemy) ==
  {player[i] : i \in 1..Len(player)} \cup {enemy[i] : i \in 1..Len(enemy)}

\* processTurn has just returned and its result is stored.
AfterTick == call.op = "processTurn"

\* C1: immediately after each processTurn tick every creature on either
\* field has 0 <= currentHealth <= battleStats.maxHealth.  (The sweeps that
\* follow the tick inside processTurn change neither of the two.)
C1_HealthWithinMaxAfterTick ==
  AfterTick =>
    \A c \in CreaturesOn(playerField, enemyField) :
      /\ 0 <= c.currentHealth
      /\ c.currentHealth <= c.battleStats["maxHealth"]

\* The recorded effect is in the activeEffects of its creature.
PresentOn(player, enemy, b) ==
  \E c \in CreaturesOn(player, enemy) :
    /\ c.id = b.owner
    /\ \E k \in 1..Len(c.activeEffects) : c.activeEffects[k].id = b.id

\* The effect as its creature carries it now.
CarriedOn(player, enemy, b) ==
  CHOOSE e \in {x.effect : x \in EffectsOn(player) \cup EffectsOn(enemy)} :
    e.id = b.id

\* The creature the recorded effect was attached to is still on its field.
OwnerOn(player, enemy, b) ==
  \E c \in CreaturesOn(player, enemy) : c.id = b.owner

\* The number of ticks since the effect was attached: every processTurn
\* ticks both fields once and is followed by the turn's increment.
TicksSince(b) == turn - b.turn

ChargesOf(id) ==
  {b \in born : /\ b.owner = id
                 /\ b.effect.type = "charge"
                 /\ b.effect.chargeEffect.present
                 /\ b.effect.chargeEffect.maxTurns = 3}

RECURSIVE SumBursts(_)
\* The sum of the finalBurst of a set of recorded charge effects.
SumBursts(S) ==
  IF S = {} THEN 0
  ELSE LET b == CHOOSE x \in S : TRUE
       IN b.effect.chargeEffect.finalBurst + SumBursts(S \ {b})

\* What C3 says of one step of the battle in which the caller increments
\* the turn before it runs processTurn, so that a charge attached at turn T
\* is ticked at turns T+1, T+2 and T+3.
ChargeStep ==
  incrementFirst =>
    /\ \A c \in CreaturesOn(playerField', enemyField') :
         \A b \in ChargesOf(c.id) :
           /\ turn' - b.turn \in {1, 2} =>
                /\ PresentOn(playerField', enemyField', b)
                /\ CarriedOn(playerField', enemyField', b)
                     .statModifications[b.effect.chargeEffect.targetStat]
                     = FloorDiv(b.effect.chargeEffect.perTurnBonus
                                  * (turn' - b.turn), 3)
                /\ FloorDiv(b.effect.chargeEffect.perTurnBonus
                              * (turn' - b.turn), 3) > 0
                /\ turn' = turn + 1 =>
                     c.battleStats[b.effect.chargeEffect.targetStat]
                       >= c.derived[b.effect.chargeEffect.targetStat]
                          + FloorDiv(b.effect.chargeEffect.perTurnBonus
                                       * (turn' - b.turn), 3)
           /\ turn' - b.turn >= 3 =>
                ~PresentOn(playerField', enemyField', b)
    /\ turn' = turn + 1 =>
         \A c \in CreaturesOn(playerField', enemyField') :
           \A before \in {x \in CreaturesOn(playerField, enemyField) :
                             x.id = c.id} :
             c.nextAttackBonus - before.nextAttackBonus
               = SumBursts({b \in ChargesOf(c.id) : turn' - b.turn = 3})

\* C3: a charge effect with maxTurns 3 that applyTool attached at turn T and
\* that is ticked at turns T+1, T+2 and T+3 carries an incremental targetStat
\* bonus after ticks 1 and 2, adds its finalBurst to nextAttackBonus exactly
\* once, on tick 3, and is absent after tick 3; no other tick adds it.
C3_ChargeBuildsThenBursts == [][ChargeStep]_vars

\* Tick 3 has just fired the burst of a charge and removed the effect.
C3_Witness ==
  /\ AfterTick
  /\ incrementFirst
  /\ \E c \in CreaturesOn(playerField, enemyField) :
       \E b \in ChargesOf(c.id) :
         /\ turn - b.turn = 3
         /\ ~PresentOn(playerField, enemyField, b)
         /\ c.nextAttackBonus = b.effect.chargeEffect.finalBurst
         /\ b.effect.chargeEffect.finalBurst >= 25

\* ------------------------------------------------------------------------
\* Single calls of the resolvers on drawn arguments
\* ------------------------------------------------------------------------

\* No battle is in progress: the arguments of one call are drawn into call,
\* the call is made, and ret holds what it returned.
NoBattle ==
  /\ playerField = <<>>
  /\ enemyField = <<>>
  /\ playerEnergy = 0
  /\ enemyEnergy = 0
  /\ playerHand = <<>>
  /\ playerDeck = <<>>
  /\ enemyHand = <<>>
  /\ enemyDeck = <<>>
  /\ turn = 0
  /\ difficulty = "medium"
  /\ incrementFirst = FALSE
  /\ nextId = 1
  /\ opsDone = 0
  /\ born = {}

\* The call has been made.
Returned == opsDone = 1

\* What making the call leaves alone.
CallFrame ==
  /\ opsDone = 0
  /\ opsDone' = 1
  /\ UNCHANGED <<gameVars, nextId, born, call>>

\* A null creature, and a creature without battleStats.
NullCreature == [Knight EXCEPT !.present = FALSE]

WithoutBattleStats(creature) ==
  [creature EXCEPT !.hasBattleStats = FALSE, !.battleStats = EmptyMap]

\* The arguments processAttack is called on.
AttackHealths == {0, 5, 30, 45}

Attackers ==
  {Knight, [Knight EXCEPT !.nextAttackBonus = 25], Oracle,
   defendCreature(Oracle, 2), WithoutBattleStats(Knight), NullCreature}

AttackTargets ==
  {[Raider EXCEPT !.derived["maxHealth"] = 45,
                  !.battleStats["maxHealth"] = 45,
                  !.currentHealth = h] : h \in AttackHealths}
  \cup {defendCreature(Raider, 1), WithoutBattleStats(Raider), NullCreature}

AttackTypes == {"auto", "physical", "magical"}

ComboLevels == {0, 3}

AttackDamageResults ==
  {MkDamageResult(d, dodged, critical, effectiveness) :
     d \in {0, 5, 30, 60}, dodged \in BOOLEAN, critical \in BOOLEAN,
     effectiveness \in {"normal", "effective"}}

InitAttack ==
  /\ NoBattle
  /\ call \in
       {[op |-> "processAttack", attacker |-> attacker, defender |-> defender,
         attackType |-> attackType, comboLevel |-> comboLevel,
         damageResult |-> damageResult, critProc |-> proc[1],
         weakProc |-> proc[2]] :
          attacker \in Attackers, defender \in AttackTargets,
          attackType \in AttackTypes, comboLevel \in ComboLevels,
          damageResult \in AttackDamageResults,
          proc \in BOOLEAN \X BOOLEAN}
  /\ ret = [op |-> "none"]

\* One call of processAttack.
AttackCall ==
  /\ call.op = "processAttack"
  /\ CallFrame
  /\ ret' = processAttack(call.attacker, call.defender, call.attackType,
                          call.comboLevel, call.damageResult, call.critProc,
                          call.weakProc, nextId)

NextAttack == AttackCall

SpecAttack == InitAttack /\ [][NextAttack]_vars

\* processAttack has returned.
AttackReturned == call.op = "processAttack" /\ Returned

\* processAttack was called on an attacker and a defender with battleStats.
ValidAttack == AttackReturned /\ ~ret.invalid

\* The five damage fields of the result are all equal to n.
DamageFieldsAre(n) ==
  /\ ret.damage = n
  /\ ret.finalDamage = n
  /\ ret.totalDamage = n
  /\ ret.damageDealt = n
  /\ ret.actualDamage = n

\* C5: a dodged attack leaves the defender's currentHealth as it was,
\* reports 0 under every damage field, and appends no effect to the
\* defender.
C5_DodgeLeavesDefender ==
  (ValidAttack /\ call.damageResult.isDodged) =>
    /\ ret.updatedDefender.currentHealth = call.defender.currentHealth
    /\ DamageFieldsAre(0)
    /\ ret.damageResult.damage = 0
    /\ ret.updatedDefender.activeEffects = call.defender.activeEffects

\* A dodged attack whose damage, critical proc and weakness proc would all
\* have landed on a healthy defender.
C5_Witness ==
  /\ ValidAttack
  /\ call.damageResult.isDodged
  /\ call.damageResult.damage = 30
  /\ call.damageResult.isCritical
  /\ call.damageResult.effectiveness = "effective"
  /\ call.critProc
  /\ call.weakProc
  /\ call.defender.currentHealth = 45
  /\ ret.updatedDefender.currentHealth = 45

\* C8: a hit of damage d on a defender with health h leaves max(0, h - d),
\* reports actualDamage = h - max(0, h - d) <= h, lowers health by exactly
\* 30 when d = 30 and h >= 30, and reports isCritical as the formula gave it.
C8_HitClampsAtZero ==
  (ValidAttack /\ ~call.damageResult.isDodged) =>
    LET h == call.defender.currentHealth
        d == call.damageResult.damage
    IN /\ ret.updatedDefender.currentHealth = Max(0, h - d)
       /\ ret.actualDamage = h - Max(0, h - d)
       /\ ret.actualDamage <= h
       /\ (d = 30 /\ h >= 30) => ret.updatedDefender.currentHealth = h - 30
       /\ ret.isCritical = call.damageResult.isCritical

\* A hit of 60 on a defender with 30 health: the damage is cut to 30.
C8_Witness ==
  /\ ValidAttack
  /\ ~call.damageResult.isDodged
  /\ call.damageResult.damage = 60
  /\ call.defender.currentHealth = 30
  /\ ret.updatedDefender.currentHealth = 0
  /\ ret.actualDamage = 30

\* C9: in every result of processAttack (hit, dodge or invalid input) the
\* fields damage, finalDamage, totalDamage, damageDealt and actualDamage are
\* equal, and equal to damageResult.damage.
C9_DamageFieldsAgree ==
  AttackReturned => DamageFieldsAre(ret.damageResult.damage)

\* A dodged attack for which the formula computed 30 damage: the result
\* reports 0 everywhere.
C9_Witness ==
  /\ ValidAttack
  /\ call.damageResult.isDodged
  /\ call.damageResult.damage = 30
  /\ ret.damageResult.damage = 0
  /\ ret.damage = 0

\* A party of the attack is missing or lacks battleStats.
AttackInvalid ==
  \/ ~call.attacker.present
  \/ ~call.defender.present
  \/ ~call.attacker.hasBattleStats
  \/ ~call.defender.hasBattleStats

\* C12: processAttack called with an attacker or defender that is missing
\* or lacks battleStats returns the zero-damage sentinel: both parties as
\* they were given (so no effect is added), every damage field 0, and a
\* damageResult that is neither dodged nor critical.
C12_InvalidAttackSentinel ==
  (AttackReturned /\ AttackInvalid) =>
    /\ ret.updatedAttacker = call.attacker
    /\ ret.updatedDefender = call.defender
    /\ DamageFieldsAre(0)
    /\ ret.damageResult.damage = 0
    /\ ~ret.damageResult.isDodged
    /\ ~ret.damageResult.isCritical

\* An attacker with a pending bonus met a defender without battleStats in
\* an attack that calculateDamage would have made a critical hit of 60.
C12_Witness ==
  /\ AttackReturned
  /\ call.attacker.present
  /\ call.attacker.hasBattleStats
  /\ call.attacker.nextAttackBonus = 25
  /\ call.defender.present
  /\ ~call.defender.hasBattleStats
  /\ call.damageResult.damage = 60
  /\ call.damageResult.isCritical
  /\ call.critProc
  /\ ret.damage = 0

\* ------------------------------------------------------------------------
\* Calls of recalculateDerivedStats
\* ------------------------------------------------------------------------

\* Bounds: effects on the creature, its combination level, successive calls.
MaxRecalcEffects == 2

MaxCombination == 2

MaxRecalcCalls == 2

\* Effects that raise maxHealth, push a defense under its minimum of 1, and
\* push maxHealth under its minimum of 10.
RecalcEffects ==
  {MkEffect(1, "Ward", "magic", "Shield", 2,
            [physicalDefense |-> 10, maxHealth |-> 10], 0, 0, NoCharge),
   MkEffect(2, "Sunder", "debuff", "none", 2,
            [physicalDefense |-> -50, dodgeChance |-> -5], 0, 0, NoCharge),
   MkEffect(3, "Wither", "debuff", "none", 3,
            [maxHealth |-> -25], 0, 0, NoCharge)}

RECURSIVE SeqsUpTo(_, _)
\* The sequences over S of length at most n.
SeqsUpTo(S, n) ==
  IF n = 0 THEN {<<>>}
  ELSE SeqsUpTo(S, n - 1)
       \cup {Append(q, x) : q \in SeqsUpTo(S, n - 1), x \in S}

RecalcCreatures ==
  {[Knight EXCEPT !.activeEffects = effects,
                  !.permanentModifications = perm,
                  !.combination_level = level,
                  !.currentHealth = health,
                  !.hasStats = hasStats,
                  !.battleStats["maxHealth"] = stale] :
     effects \in SeqsUpTo(RecalcEffects, MaxRecalcEffects),
     perm \in {EmptyMap, [maxHealth |-> -5, physicalAttack |-> 3]},
     level \in 0..MaxCombination,
     health \in {0, 7, 30, 60},
     hasStats \in BOOLEAN,
     stale \in {30, 40}}

InitRecalc ==
  /\ NoBattle
  /\ call \in {[op |-> "recalculateDerivedStats", creature |-> c,
                before |-> c, mutated |-> c, previous |-> [op |-> "none"]] :
                 c \in RecalcCreatures}
  /\ ret = [op |-> "none"]

\* One call of recalculateDerivedStats on call.creature.  The callee cuts
\* currentHealth on its argument and returns the stats; the caller may or
\* may not assign them to creature.battleStats.
RecalcCall ==
  /\ call.op = "recalculateDerivedStats"
  /\ opsDone < MaxRecalcCalls
  /\ opsDone' = opsDone + 1
  /\ \E assign \in BOOLEAN :
       \E mutated \in {[call.creature EXCEPT !.currentHealth =
                          HealthAfterRecalculation(call.creature)]} :
          /\ ret' = [battleStats |-> RecalculatedStats(call.creature)]
          /\ call' = [call EXCEPT
                        !.before = call.creature,
                        !.mutated = mutated,
                        !.previous = ret,
                        !.creature =
                          IF assign
                          THEN recalculateDerivedStats(call.creature)
                          ELSE mutated]
  /\ UNCHANGED <<gameVars, nextId, born>>

NextRecalc == RecalcCall

SpecRecalc == InitRecalc /\ [][NextRecalc]_vars

\* C6: recalculateDerivedStats is idempotent: a call that follows another
\* with nothing changed in between returns the same battleStats and leaves
\* the creature exactly as it found it.
C6_RecalculationIdempotent ==
  (call.op = "recalculateDerivedStats" /\ opsDone >= 2) =>
    /\ ret = call.previous
    /\ call.mutated = call.before

\* A second call on a creature with effects, permanent modifications and a
\* combination level, whose health the first call had to cut down.
C6_Witness ==
  /\ call.op = "recalculateDerivedStats"
  /\ opsDone = 2
  /\ Len(call.creature.activeEffects) = 2
  /\ call.creature.combination_level = 2
  /\ call.creature.permanentModifications # EmptyMap
  /\ call.creature.hasStats
  /\ call.creature.currentHealth = ret.battleStats["maxHealth"]
  /\ ret.battleStats # call.creature.derived

\* ------------------------------------------------------------------------
\* Calls of applyTool and applySpell
\* ------------------------------------------------------------------------

ItemTypes == ItemCategories \cup {"none"}

ItemEffects == EffectTags \cup {"none"}

\* Every tool and spell definition, with or without its fields, and null.
AllTools ==
  {MkTool(type, effect) : type \in ItemTypes, effect \in ItemEffects}
  \cup {[MkTool("none", "none") EXCEPT !.present = FALSE]}

AllSpells ==
  {MkSpell(type, effect) : type \in ItemTypes, effect \in ItemEffects}
  \cup {[MkSpell("none", "none") EXCEPT !.present = FALSE]}

ItemCreatures ==
  {Knight, [Knight EXCEPT !.currentHealth = 12], Oracle,
   defendCreature(Raider, 9), defendCreature(defendCreature(Raider, 9), 10),
   [Raider EXCEPT !.hasStats = FALSE],
   WithoutBattleStats(Knight), NullCreature}

\* A creature whose battleStats object does not define one stat.
WithoutStat(creature, stat) ==
  [creature EXCEPT !.battleStats =
     [s \in (DOMAIN creature.battleStats) \ {stat} |->
        creature.battleStats[s]]]

SpellCasters ==
  {Knight, Oracle, Raider, WithoutBattleStats(Raider),
   WithoutStat(Oracle, "magicalAttack"), defendCreature(Knight, 8)}

SpellTargets ==
  {Knight, Oracle, [Raider EXCEPT !.currentHealth = 4],
   WithoutStat([Raider EXCEPT !.battleStats["magicalAttack"] = 2],
               "physicalAttack"),
   defendCreature(defendCreature(Raider, 9), 10)}

InitItems ==
  /\ NoBattle
  /\ call \in
       {[op |-> "applyTool", creature |-> creature, tool |-> tool,
         difficulty |-> d, currentTurn |-> 3] :
          creature \in ItemCreatures, tool \in AllTools, d \in Difficulties}
       \cup
       {[op |-> "applySpell", caster |-> caster, target |-> target,
         spell |-> spell, difficulty |-> d, currentTurn |-> 3,
         isCritical |-> critical] :
          caster \in SpellCasters, target \in SpellTargets,
          spell \in AllSpells, d \in Difficulties, critical \in BOOLEAN}
  /\ ret = [op |-> "none"]

\* One call of applyTool.
ToolCall ==
  /\ call.op = "applyTool"
  /\ CallFrame
  /\ ret' = applyTool(call.creature, call.tool, call.difficulty,
                      call.currentTurn, nextId)

\* One call of applySpell.
SpellCall ==
  /\ call.op = "applySpell"
  /\ CallFrame
  /\ ret' = applySpell(call.caster, call.target, call.spell, call.difficulty,
                       call.currentTurn, call.isCritical, nextId)

NextItems ==
  \/ ToolCall
  \/ SpellCall

SpecItems == InitItems /\ [][NextItems]_vars

ToolReturned == call.op = "applyTool" /\ Returned

SpellReturned == call.op = "applySpell" /\ Returned

\* C7: the Shield tool of type magic, applied at difficulty medium to a
\* creature without effects whose physicalDefense is 40, returns a creature
\* with physicalDefense 50, maxHealth 15 higher, currentHealth 5 higher (at
\* most the new maxHealth) and exactly one active effect, of duration 2.
C7_ShieldToolScenario ==
  (/\ ToolReturned
   /\ call.tool = MkTool("magic", "Shield")
   /\ call.difficulty = "medium"
   /\ call.creature.present
   /\ call.creature.hasBattleStats
   /\ call.creature.activeEffects = <<>>
   /\ call.creature.derived["physicalDefense"] = 40
   /\ call.creature.battleStats["physicalDefense"] = 40) =>
    LET before == call.creature
        after == ret.updatedCreature
    IN /\ after.battleStats["physicalDefense"] = 50
       /\ after.battleStats["maxHealth"] = before.battleStats["maxHealth"] + 15
       /\ after.currentHealth =
            Min(before.currentHealth + 5, after.battleStats["maxHealth"])
       /\ Len(after.activeEffects) = 1
       /\ after.activeEffects[1].duration = 2

\* The tool or spell of the call is an object that lacks its effect or its
\* type.
LacksField(item, effect, type) ==
  item.present /\ (effect = "none" \/ type = "none")

\* C10: applyTool on a tool without tool_effect or tool_type, and applySpell
\* on a spell without spell_effect or spell_type, return the creatures they
\* were given, unchanged, with a null effect.
C10_MissingFieldsFailSoftly ==
  /\ (ToolReturned
      /\ LacksField(call.tool, call.tool.tool_effect, call.tool.tool_type)) =>
       /\ ret.updatedCreature = call.creature
       /\ ret.toolEffect.isNull
  /\ (SpellReturned
      /\ LacksField(call.spell, call.spell.spell_effect,
                    call.spell.spell_type)) =>
       /\ ret.updatedCaster = call.caster
       /\ ret.updatedTarget = call.target
       /\ ret.spellEffect.isNull

\* ------------------------------------------------------------------------
\* Calls of processDefeatedCreatures
\* ------------------------------------------------------------------------

\* Bound: the length of the field that is swept.
MaxFieldLen == 4

\* The kinds of creature a swept field is made of.
FieldKinds == {"alive", "fallenLegendary", "fallenEpic", "fallenSpecialist"}

\* The creature of a kind standing at a position (its id is the position).
FieldMember(kind, position) ==
  CASE kind = "alive" -> [Knight EXCEPT !.id = position]
    [] kind = "fallenLegendary" ->
         [Oracle EXCEPT !.id = position, !.currentHealth = 0,
                        !.energySpecialist = FALSE]
    [] kind = "fallenEpic" -> [Raider EXCEPT !.id = position, !.currentHealth = 0]
    [] OTHER ->
         [Knight EXCEPT !.id = position, !.currentHealth = 0,
                        !.energySpecialist = TRUE]

SweptFields ==
  {[i \in 1..Len(kinds) |-> FieldMember(kinds[i], i)] :
     kinds \in SeqsUpTo(FieldKinds, MaxFieldLen) \ {<<>>}}

InitDeath ==
  /\ NoBattle
  /\ call \in {[op |-> "processDefeatedCreatures", creatures |-> field,
                opposingCreatures |-> opposing] :
                 field \in SweptFields,
                 opposing \in {<<>>, <<[Raider EXCEPT !.id = 9]>>}}
  /\ ret = [op |-> "none"]

\* One call of processDefeatedCreatures.
SweepCall ==
  /\ call.op = "processDefeatedCreatures"
  /\ CallFrame
  /\ ret' = processDefeatedCreatures(call.creatures, call.opposingCreatures,
                                     nextId)

NextDeath == SweepCall

SpecDeath == InitDeath /\ [][NextDeath]_vars

\* The creatures of a field that the sweep keeps, in field order.
Survivors(field) == SelectSeq(field, LAMBDA c : c.currentHealth > 0)

\* The effect is a legendary blessing of duration 5 and +2 / +2.
IsFinalGift(effect) ==
  /\ effect.type = "legendary_blessing"
  /\ effect.duration = 5
  /\ effect.statModifications = [physicalAttack |-> 2, magicalAttack |-> 2]

\* C4: when the swept field holds one defeated Legendary creature and 3
\* survivors, then wherever the defeated creature stands, each survivor is
\* returned with exactly one new effect, a legendary_blessing of duration 5
\* and {physicalAttack: +2, magicalAttack: +2}.
C4_LegendaryBlessesEverySurvivor ==
  (/\ call.op = "processDefeatedCreatures"
   /\ Returned
   /\ Len(call.creatures) = 4
   /\ Len(Survivors(call.creatures)) = 3
   /\ \E d \in 1..4 : /\ call.creatures[d].currentHealth <= 0
                      /\ call.creatures[d].rarity = "Legendary") =>
    /\ Len(ret.surviving) = 3
    /\ \A i \in 1..3 :
         LET before == Survivors(call.creatures)[i].activeEffects
             after == ret.surviving[i].activeEffects
         IN /\ Len(after) = Len(before) + 1
            /\ SubSeq(after, 1, Len(before)) = before
            /\ IsFinalGift(after[Len(after)])

\* ------------------------------------------------------------------------
\* Calls of processTurn
\* ------------------------------------------------------------------------

\* Bound: successive processTurn calls on the state the previous one
\* returned.
MaxTurnCalls == 3

\* Effects a creature carries into a turn: a heal over time, a damage over
\* time that outlasts no tick, and a charge whose third turn has come.
Mend(id) ==
  MkEffect(id, "Mend", "magic", "Surge", 2, [physicalAttack |-> 3], 4, 0,
           NoCharge)

Poison(id) == MkEffect(id, "Poison", "debuff", "none", 1, EmptyMap, -6, 0, NoCharge)

ReadyCharge(id) ==
  MkEffect(id, "Tool Effect", "charge", "Charge", 1, [physicalDefense |-> 2],
           0, 0, MkCharge("physicalDefense", 3, 3, 25))

\* A debuff that takes more attack than a Knight has.
Sap(id) ==
  MkEffect(id, "Sap", "debuff", "none", 2, [physicalAttack |-> -15], 0, 0,
           NoCharge)

\* The creature of a kind with an id.
TurnMember(kind, id) ==
  CASE kind = "knight" -> [Knight EXCEPT !.id = id]
    [] kind = "mending" ->
         [Knight EXCEPT !.id = id, !.currentHealth = 20,
                        !.battleStats["physicalAttack"] = 15,
                        !.activeEffects = <<Mend(100 + id)>>]
    [] kind = "poisoned" ->
         [Knight EXCEPT !.id = id, !.currentHealth = 5,
                        !.activeEffects = <<Poison(100 + id)>>]
    [] kind = "charged" ->
         [Knight EXCEPT !.id = id, !.battleStats["physicalDefense"] = 44,
                        !.activeEffects = <<ReadyCharge(100 + id)>>]
    [] kind = "weakened" ->
         recalculateDerivedStats(
           [Knight EXCEPT !.id = id, !.activeEffects = <<Sap(100 + id)>>])
    [] kind = "veteran" ->
         recalculateDerivedStats(
           [Knight EXCEPT !.id = id, !.combination_level = 1,
                          !.permanentModifications = [physicalAttack |-> 3],
                          !.activeEffects = <<Mend(100 + id)>>])
    [] kind = "mendThenPoison" ->
         [Knight EXCEPT !.id = id, !.currentHealth = 28,
                        !.battleStats["physicalAttack"] = 15,
                        !.activeEffects = <<Mend(100 + id), Poison(200 + id)>>]
    [] kind = "poisonThenMend" ->
         [Knight EXCEPT !.id = id, !.currentHealth = 28,
                        !.battleStats["physicalAttack"] = 15,
                        !.activeEffects = <<Poison(200 + id), Mend(100 + id)>>]
    [] kind = "fallenLegendary" -> [Oracle EXCEPT !.id = id, !.currentHealth = 0]
    [] kind = "fallenEpic" -> [Raider EXCEPT !.id = id, !.currentHealth = 0]
    [] kind = "fallenEpicSpecialist" ->
         [Raider EXCEPT !.id = id, !.currentHealth = 0,
                        !.energySpecialist = TRUE]
    [] kind = "fallenCommon" -> [Knight EXCEPT !.id = id, !.currentHealth = 0]
    [] kind = "null" -> [NullCreature EXCEPT !.id = id]
    [] kind = "noBattleStats" -> WithoutBattleStats([Knight EXCEPT !.id = id])
    [] OTHER -> [Knight EXCEPT !.id = id, !.hasStats = FALSE]

\* The fields a turn starts from, as sequences of kinds.
Lineups ==
  {<<>>, <<"knight">>, <<"mending", "poisoned">>,
   <<"charged", "fallenLegendary", "knight">>,
   <<"knight", "fallenEpic", "fallenCommon">>,
   <<"knight", "knight", "mending", "fallenEpicSpecialist">>,
   <<"fallenLegendary", "fallenEpic", "knight">>,
   <<"null", "knight">>, <<"noBattleStats", "knight">>,
   <<"noBattleStats", "fallenLegendary">>, <<"noStats", "knight">>,
   <<"weakened", "veteran">>, <<"mendThenPoison", "poisonThenMend">>,
   <<"knight", "fallenLegendary">>}

\* The field of a lineup; the ids of a side start after base.
LineupField(kinds, base) ==
  [i \in 1..Len(kinds) |-> TurnMember(kinds[i], base + i)]

\* playerHand, playerDeck, enemyHand, enemyDeck
CardTables ==
  {<<<<1, 2, 3>>, <<4, 5>>, <<6, 7, 8, 9, 10>>, <<11>>>>,
   <<<<1, 2, 3, 4>>, <<5>>, <<>>, <<>>>>,
   <<<<1, 2>>, <<3, 4, 5>>, <<6, 7, 8>>, <<>>>>}

\* playerEnergy, enemyEnergy
EnergyPools == {<<0, 12>>, <<9, 3>>}

TurnStates ==
  {[playerField |-> LineupField(player, 0),
    enemyField |-> LineupField(enemy, 10),
    playerEnergy |-> energy[1], enemyEnergy |-> energy[2],
    playerHand |-> cards[1], playerDeck |-> cards[2],
    enemyHand |-> cards[3], enemyDeck |-> cards[4], turn |-> 3] :
     player \in Lineups, enemy \in Lineups, energy \in EnergyPools,
     cards \in CardTables}

InitTurn ==
  /\ NoBattle
  /\ call \in {[op |-> "processTurn", gs |-> gs, difficulty |-> d,
                previous |-> gs, given |-> gs] :
                 gs \in TurnStates, d \in Difficulties}
  /\ ret = [op |-> "none"]

\* One call of processTurn on call.gs; the caller keeps the returned state
\* and advances the turn.  call.previous is the state the call was given and
\* call.given the object that held it, as the call leaves it.  After a call
\* that raised there is no further call.
TurnCall ==
  /\ call.op = "processTurn"
  /\ opsDone < MaxTurnCalls
  /\ opsDone > 0 => ~ret.raised
  /\ opsDone' = opsDone + 1
  /\ \E r \in {processTurn(call.gs, call.difficulty, nextId)} :
       /\ ret' = r
       /\ nextId' = r.nextId
       /\ call' = [call EXCEPT
                     !.previous = call.gs,
                     !.given = GivenAfterTurn(call.gs, call.difficulty,
                                              nextId),
                     !.gs = IF r.raised THEN call.gs
                            ELSE [playerField |-> r.playerField,
                                  enemyField |-> r.enemyField,
                                  playerEnergy |-> r.playerEnergy,
                                  enemyEnergy |-> r.enemyEnergy,
                                  playerHand |-> r.playerHand,
                                  playerDeck |-> r.playerDeck,
                                  enemyHand |-> r.enemyHand,
                                  enemyDeck |-> r.enemyDeck,
                                  turn |-> call.gs.turn + 1]]
  /\ UNCHANGED <<gameVars, born>>

NextTurn == TurnCall

SpecTurn == InitTurn /\ [][NextTurn]_vars

\* processTurn has been called; call.previous is the state it was given.
TurnReturned == call.op = "processTurn" /\ opsDone >= 1

\* A null creature, or one that lacks battleStats or stats.
Malformed(creature) ==
  ~creature.present \/ ~creature.hasBattleStats \/ ~creature.hasStats

\* C11: processTurn never aborts because of one malformed creature: when a
\* field contains a null creature, or a creature lacking battleStats or
\* stats, the call completes without raising.
C11_MalformedCreatureTolerated ==
  (/\ TurnReturned
   /\ \E c \in CreaturesOn(call.previous.playerField,
                           call.previous.enemyField) : Malformed(c)) =>
    ~ret.raised

\* ------------------------------------------------------------------------
\* Input creatures after a resolver call
\* ------------------------------------------------------------------------

\* The fields of a creature that hold objects or arrays.
ObjectFields ==
  {"stats", "battleStats", "activeEffects", "permanentModifications"}

\* The input object as the caller sees it after the call.  A field whose
\* object the clone shares with the input, and that the body writes in
\* place through the clone, shows the clone's contents; every other field
\* is as it was.
SeenAfterCall(input, clone, shared, writtenInPlace) ==
  [f \in DOMAIN input |->
     IF f \in shared \cap writtenInPlace THEN clone[f] ELSE input[f]]

\* Variant of InputAfterAttack for clones made by the spread alone, without
\* fresh copies of battleStats and activeEffects.
InputAfterSpreadOnly(input, clone) ==
  SeenAfterCall(input, clone, ObjectFields, {"battleStats"})

\* processAttack: the clone is a spread of the input with a fresh copy of
\* battleStats and of the activeEffects array; the body adds to
\* attackerClone.battleStats in place and assigns everything else.
InputAfterAttack(input, clone) ==
  SeenAfterCall(input, clone, ObjectFields \ {"battleStats", "activeEffects"},
                {"battleStats"})

\* applyTool, applySpell, defendCreature: the clone is
\* JSON.parse(JSON.stringify(input)) and shares nothing; the body writes
\* battleStats in place.
InputAfterDeepClone(input, clone) ==
  SeenAfterCall(input, clone, {}, {"battleStats"})

ResolverCalls ==
  {[op |-> "processAttack", attacker |-> attacker, defender |-> defender,
    attackType |-> "auto", comboLevel |-> 0, damageResult |-> damageResult,
    critProc |-> proc[1], weakProc |-> proc[2]] :
     attacker \in {Knight, [Knight EXCEPT !.nextAttackBonus = 25],
                   NullCreature},
     defender \in {Raider, defendCreature(Raider, 9),
                   WithoutBattleStats(Raider)},
     damageResult \in {MkDamageResult(30, FALSE, TRUE, "effective"),
                       MkDamageResult(5, TRUE, FALSE, "normal")},
     proc \in BOOLEAN \X BOOLEAN}
  \cup
  {[op |-> "applyTool", creature |-> creature, tool |-> tool,
    difficulty |-> d, currentTurn |-> 3] :
     creature \in ItemCreatures,
     tool \in {MkTool("magic", "Shield"), MkTool("stamina", "Charge"),
               MkTool("none", "none")},
     d \in {"medium", "expert"}}
  \cup
  {[op |-> "applySpell", caster |-> caster, target |-> target,
    spell |-> spell, difficulty |-> d, currentTurn |-> 3,
    isCritical |-> critical] :
     caster \in SpellCasters, target \in SpellTargets,
     spell \in {MkSpell("strength", "Drain"), MkSpell("stamina", "Shield"),
                MkSpell("energy", "Surge")},
     d \in {"medium", "expert"}, critical \in BOOLEAN}
  \cup
  {[op |-> "defendCreature", creature |-> creature] :
     creature \in ItemCreatures}

InitResolvers ==
  /\ NoBattle
  /\ call \in ResolverCalls
  /\ ret = [op |-> "none"]

\* One call of defendCreature.
DefendCall ==
  /\ call.op = "defendCreature"
  /\ CallFrame
  /\ ret' = [updatedCreature |-> defendCreature(call.creature, nextId)]

NextResolvers ==
  \/ AttackCall
  \/ ToolCall
  \/ SpellCall
  \/ DefendCall

SpecResolvers == InitResolvers /\ [][NextResolvers]_vars

\* The input is as it was before the call in the fields C13 names.
Untouched(seen, input) ==
  /\ seen.currentHealth = input.currentHealth
  /\ seen.battleStats = input.battleStats
  /\ seen.activeEffects = input.activeEffects
  /\ seen.nextAttackBonus = input.nextAttackBonus

EffectsOf(creature) ==
  {creature.activeEffects[k] : k \in 1..Len(creature.activeEffects)}

\* The well-formed creatures processTurn was given, and the creatures it
\* returned.
GivenCreatures ==
  {c \in CreaturesOn(call.previous.playerField, call.previous.enemyField) :
     c.present /\ c.hasBattleStats}

ReturnedCreatures == CreaturesOn(ret.playerField, ret.enemyField)

\* The ids of the effects processTurn was given.
GivenEffectIds ==
  UNION {{e.id : e \in EffectsOf(c)} :
           c \in {x \in CreaturesOn(call.previous.playerField,
                                    call.previous.enemyField) : x.present}}

\* The duration a death trigger gives the effect it injects.
InjectedDuration(effect) ==
  CASE effect.type = "legendary_blessing" -> 5
    [] effect.type = "energy_burst" -> 2
    [] effect.type = "epic_blessing" -> 3
    [] OTHER -> 2

\* The tick of this turn fires the final burst of the effect.
FiresThisTurn(effect) ==
  /\ effect.type = "charge"
  /\ effect.chargeEffect.present
  /\ call.previous.turn - effect.startTurn >= effect.chargeEffect.maxTurns
  /\ effect.chargeEffect.finalBurst # 0

RECURSIVE HealthTickedFrom(_, _, _)
\* The health of a creature once each of its healthOverTime effects from
\* index i on has been applied once, in list order.
HealthTickedFrom(creature, i, health) ==
  IF i > Len(creature.activeEffects) THEN health
  ELSE HealthTickedFrom(
         creature, i + 1,
         IF creature.activeEffects[i].healthOverTime = 0 THEN health
         ELSE Min(creature.battleStats["maxHealth"],
                  Max(0, health
                         + ScaledHealthChange(
                             creature.activeEffects[i].healthOverTime,
                             call.difficulty, creature.rarity))))

\* The health of a creature once each of its healthOverTime effects has
\* been applied once.
HealthTickedOnce(creature) ==
  HealthTickedFrom(creature, 1, creature.currentHealth)

\* C14: one processTurn call runs each phase exactly once: each side's
\* energy regeneration is added once; every effect present at the start on a
\* creature with battleStats has its healthOverTime applied once and its
\* duration decremented by exactly 1 (or forced to 0 when a charge fires);
\* each field is swept for deaths once; and the effects that death triggers
\* inject during the call are not ticked in that call.
C14_EachPhaseOnce ==
  (TurnReturned /\ ~ret.raised) =>
    /\ ret.playerEnergy =
         Min(call.previous.playerEnergy
               + calculateEnergyRegen(call.previous.playerField,
                                      call.difficulty),
             getMaxEnergy(call.previous.playerField, call.difficulty))
    /\ ret.enemyEnergy =
         Min(call.previous.enemyEnergy
               + calculateEnergyRegen(call.previous.enemyField,
                                      call.difficulty),
             getMaxEnergy(call.previous.enemyField, call.difficulty))
    /\ \A c \in GivenCreatures :
         /\ HealthTickedOnce(c) > 0 =>
              \E after \in ReturnedCreatures :
                /\ after.id = c.id
                /\ after.currentHealth = HealthTickedOnce(c)
                /\ \A e \in EffectsOf(c) :
                     IF e.duration - 1 > 0 /\ ~FiresThisTurn(e)
                     THEN \E kept \in EffectsOf(after) :
                            /\ kept.id = e.id
                            /\ kept.duration = e.duration - 1
                     ELSE \A kept \in EffectsOf(after) : kept.id # e.id
         /\ HealthTickedOnce(c) <= 0 =>
              \A after \in ReturnedCreatures : after.id # c.id
    /\ \A after \in ReturnedCreatures :
         \A e \in EffectsOf(after) :
           e.id \notin GivenEffectIds => e.duration = InjectedDuration(e)

\* A call in which a heal over time was applied and lost one turn, a charge
\* fired, a poisoned creature died of its tick, and a death trigger injected
\* a blessing.
C14_Witness ==
  /\ TurnReturned
  /\ ~ret.raised
  /\ \E c \in GivenCreatures : \E e \in EffectsOf(c) : FiresThisTurn(e)
  /\ \E c \in GivenCreatures :
       c.currentHealth > 0 /\ HealthTickedOnce(c) <= 0
  /\ \E after \in ReturnedCreatures :
       /\ after.currentHealth = 24
       /\ \E e \in EffectsOf(after) : e.name = "Mend" /\ e.duration = 1
  /\ \E after \in ReturnedCreatures :
       /\ after.nextAttackBonus = 25
       /\ \E e \in EffectsOf(after) :
            e.type = "legendary_blessing" /\ e.duration = 5

\* The hand cap the draw phase is specified with.
HandCap(level) ==
  CASE level = "easy" -> 5
    [] level = "medium" -> 4
    [] OTHER -> 3

\* How often a card occurs in a hand followed by a deck.
Copies(card, hand, deck) ==
  Cardinality({i \in 1..Len(hand \o deck) : (hand \o deck)[i] = card})

\* The draw phase of one side, from the hand and deck given to the hand and
\* deck returned.
DrawnPerRule(hand, deck, handAfter, deckAfter) ==
  /\ IF Len(hand) < HandCap(call.difficulty) /\ Len(deck) > 0
     THEN /\ handAfter = hand \o <<deck[1]>>
          /\ deckAfter = SubSeq(deck, 2, Len(deck))
     ELSE handAfter = hand /\ deckAfter = deck
  /\ \A card \in 1..11 :
       Copies(card, handAfter, deckAfter) = Copies(card, hand, deck)
  /\ Len(hand) <= HandCap(call.difficulty) =>
       Len(handAfter) <= HandCap(call.difficulty)

\* C15: in the draw phase of processTurn, a side whose hand is below the cap
\* of the difficulty (easy 5, medium 4, hard 3, expert 3) and whose deck is
\* non-empty gets exactly the first deck card appended to its hand and
\* removed from its deck, order kept; otherwise hand and deck are unchanged.
\* Hand and deck together keep the same multiset of cards, and a hand at or
\* below the cap does not exceed it.
C15_DrawMovesFirstCard ==
  (TurnReturned /\ ~ret.raised) =>
    /\ DrawnPerRule(call.previous.playerHand, call.previous.playerDeck,
                    ret.playerHand, ret.playerDeck)
    /\ DrawnPerRule(call.previous.enemyHand, call.previous.enemyDeck,
                    ret.enemyHand, ret.enemyDeck)

\* A call in which the player drew the first of two deck cards while the
\* enemy, at the cap with a card left in the deck, drew none.
C15_Witness ==
  /\ TurnReturned
  /\ ~ret.raised
  /\ Len(call.previous.playerDeck) = 2
  /\ ret.playerHand = call.previous.playerHand
                        \o <<call.previous.playerDeck[1]>>
  /\ Len(ret.playerDeck) = 1
  /\ Len(call.previous.enemyHand) = HandCap(call.difficulty)
  /\ Len(call.previous.enemyDeck) > 0
  /\ ret.enemyHand = call.previous.enemyHand

\* The energy cap of a side as specified: a base by difficulty plus a
\* quarter point per creature, rounded down.
EnergyCap(field) ==
  (CASE call.difficulty = "easy" -> 10
     [] call.difficulty = "medium" -> 12
     [] call.difficulty = "hard" -> 15
     [] OTHER -> 18)
  + (Len(field) \div 4)

\* The energy of a side after a call, from its energy and field before.
RegeneratedToCap(before, field, after) ==
  /\ after = Min(before + calculateEnergyRegen(field, call.difficulty),
                 EnergyCap(field))
  /\ after \in 0..EnergyCap(field)

\* C16: after each processTurn a side's energy is
\* min(previous + regen(field, difficulty), cap), where cap is the base of
\* the difficulty (easy 10, medium 12, hard 15, expert 18) plus
\* floor(0.25 * creature count) and the field is the one the call was
\* given; the energy stays a non-negative integer no greater than that cap.
C16_EnergyRegeneratesToCap ==
  (TurnReturned /\ ~ret.raised) =>
    /\ RegeneratedToCap(call.previous.playerEnergy,
                        call.previous.playerField, ret.playerEnergy)
    /\ RegeneratedToCap(call.previous.enemyEnergy,
                        call.previous.enemyField, ret.enemyEnergy)

\* A call in which the player, with four creatures, was clamped to a cap
\* that includes the creature bonus, while the enemy regenerated below its
\* cap.
C16_Witness ==
  /\ TurnReturned
  /\ ~ret.raised
  /\ Len(call.previous.playerField) = 4
  /\ call.previous.playerEnergy
       + calculateEnergyRegen(call.previous.playerField, call.difficulty)
     > EnergyCap(call.previous.playerField)
  /\ ret.playerEnergy = EnergyCap(call.previous.playerField)
  /\ ret.enemyEnergy > call.previous.enemyEnergy
  /\ ret.enemyEnergy < EnergyCap(call.previous.enemyField)

\* C17: after any sequence of applyTool, applySpell, defendCreature,
\* processAttack and processTurn, every effect in the activeEffects of a
\* creature with battleStats has an integer duration greater than 0; an
\* effect whose duration reaches 0 or less during a tick is gone when the
\* tick returns.
C17_ActiveEffectsHaveTurnsLeft ==
  \A c \in CreaturesOn(playerField, enemyField) :
    (c.present /\ c.hasBattleStats) =>
      \A e \in EffectsOf(c) : e.duration \in Nat \ {0}

\* A tick has just removed an effect of duration 1 from a creature that is
\* still there and carries another effect, with a turn left.
C17_Witness ==
  /\ AfterTick
  /\ \E b \in born :
       /\ b.effect.duration = 1
       /\ TicksSince(b) = 1
       /\ ~PresentOn(playerField, enemyField, b)
       /\ \E c \in CreaturesOn(playerField, enemyField) :
            /\ c.id = b.owner
            /\ c.hasBattleStats
            /\ \E e \in EffectsOf(c) : e.duration = 1

\* The tick of this call leaves the creature defeated.
DefeatedThisTurn(creature) ==
  creature.present /\ creature.hasBattleStats
    /\ HealthTickedOnce(creature) <= 0

\* The creature survives the tick of this call.
SurvivesThisTurn(creature) ==
  creature.present /\ creature.hasBattleStats
    /\ HealthTickedOnce(creature) > 0

\* The creature of the returned fields with the id.
ReturnedWithId(id) == CHOOSE c \in ReturnedCreatures : c.id = id

\* The creature carries an effect of the name, duration and stat changes.
CarriesEffect(creature, name, duration, mods) ==
  \E e \in EffectsOf(creature) :
    e.name = name /\ e.duration = duration /\ e.statModifications = mods

\* The effects the death of the defeated creature owes an ally.
OwedByDeath(defeated, ally) ==
  /\ defeated.rarity = "Legendary" =>
       CarriesEffect(ally, "Final Gift", 5,
                     [physicalAttack |-> 2, magicalAttack |-> 2])
  /\ defeated.energySpecialist =>
       CarriesEffect(ally, "Energy Release", 2, [energyCost |-> -1])
  /\ defeated.rarity = "Epic" =>
       CarriesEffect(ally, "Epic Essence", 3,
                     [physicalAttack |-> 1, magicalAttack |-> 1])

\* Every ally that survived before a creature defeated in this call carries
\* each effect that death owes.
DeathsPaid(field) ==
  \A i \in 1..Len(field) : \A j \in 1..(i - 1) :
    (DefeatedThisTurn(field[i]) /\ SurvivesThisTurn(field[j])) =>
      OwedByDeath(field[i], ReturnedWithId(field[j].id))

\* C18: the death triggers of a defeated creature whose conditions hold are
\* all applied and stack: a defeated Epic energy specialist gives its allies
\* both 'Energy Release' (duration 2, energyCost -1) and 'Epic Essence'
\* (duration 3, +1 / +1), and a defeated Legendary energy specialist gives
\* both 'Final Gift' and 'Energy Release'.
C18_DeathTriggersStack ==
  (TurnReturned /\ ~ret.raised) =>
    DeathsPaid(call.previous.playerField)
      /\ DeathsPaid(call.previous.enemyField)

\* The number of Legendary or Epic creatures of the field that are defeated
\* in this call.
StrongDefeats(field) ==
  Cardinality({i \in 1..Len(field) :
                 /\ DefeatedThisTurn(field[i])
                 /\ field[i].rarity \in {"Legendary", "Epic"}})

\* The 'Guilty Conscience' effects the creature gained in this call.
GuiltGained(creature) ==
  {e \in EffectsOf(creature) :
     e.name = "Guilty Conscience" /\ e.id \notin GivenEffectIds}

\* Every creature of the returned field gained one 'Guilty Conscience' per
\* strong creature the opposing side lost, each of duration 2 with
\* initiative -2 and dodgeChance -1.
Avenged(lost, returned) ==
  \A i \in 1..Len(returned) :
    /\ Cardinality(GuiltGained(returned[i])) = StrongDefeats(lost)
    /\ \A e \in GuiltGained(returned[i]) :
         /\ e.type = "debuff"
         /\ e.duration = 2
         /\ e.statModifications = [initiative |-> -2, dodgeChance |-> -1]

\* C19: in a processTurn call in which k Legendary or Epic creatures of one
\* side are defeated, every opposing creature still on the field after the
\* call has gained exactly k 'Guilty Conscience' effects (duration 2,
\* initiative -2, dodgeChance -1); defeats of other rarities add none; this
\* holds for both sides.
C19_RevengePerStrongDefeat ==
  (TurnReturned /\ ~ret.raised) =>
    /\ Avenged(call.previous.playerField, ret.enemyField)
    /\ Avenged(call.previous.enemyField, ret.playerField)

\* A call in which the player lost a Legendary and an Epic and a remaining
\* enemy gained two debuffs, while the enemy lost an Epic and a Common and a
\* remaining player creature gained one.
C19_Witness ==
  /\ TurnReturned
  /\ ~ret.raised
  /\ StrongDefeats(call.previous.playerField) = 2
  /\ \E i \in 1..Len(ret.enemyField) :
       Cardinality(GuiltGained(ret.enemyField[i])) = 2
  /\ StrongDefeats(call.previous.enemyField) = 1
  /\ \E i \in 1..Len(call.previous.enemyField) :
       /\ DefeatedThisTurn(call.previous.enemyField[i])
       /\ call.previous.enemyField[i].rarity = "Common"
  /\ \E i \in 1..Len(ret.playerField) :
       Cardinality(GuiltGained(ret.playerField[i])) = 1

\* C20: a pending nextAttackBonus boosts exactly one attack: in the
\* updatedAttacker that processAttack returns, nextAttackBonus is absent and
\* battleStats.physicalAttack and battleStats.magicalAttack equal their
\* values before the call, so that a second processAttack made with
\* updatedAttacker works from the unboosted stat.
C20_BonusBoostsOneAttack ==
  (ValidAttack /\ call.attacker.nextAttackBonus # 0) =>
    /\ ret.updatedAttacker.nextAttackBonus = 0
    /\ ret.updatedAttacker.battleStats["physicalAttack"]
         = call.attacker.battleStats["physicalAttack"]
    /\ ret.updatedAttacker.battleStats["magicalAttack"]
         = call.attacker.battleStats["magicalAttack"]

\* Every stat delta of the map has a magnitude of at most limit.
DeltasWithin(changes, limit) ==
  \A s \in DOMAIN changes : Abs(changes[s]) <= limit

\* C21: for every tool or spell definition, caster stat value and
\* difficulty, the scaled effect that applyTool / applySpell returns respects
\* the hard caps: each stat delta has magnitude at most 15 for tools and 18
\* for spells, the tool healthChange is at most 50, the spell healing at
\* most 80, the spell selfHeal at most 40 and the spell damage field at most
\* 100.
C21_ScaledEffectWithinCaps ==
  /\ (ToolReturned /\ ~ret.toolEffect.isNull) =>
       /\ DeltasWithin(ret.toolEffect.statChanges, 15)
       /\ ret.toolEffect.healthChange <= 50
  /\ (SpellReturned /\ ~ret.raised /\ ~ret.spellEffect.isNull) =>
       /\ DeltasWithin(ret.spellEffect.statChanges, 18)
       /\ ret.spellEffect.healing <= 80
       /\ ret.spellEffect.selfHeal <= 40
       /\ ret.spellEffect.damage <= 100

\* A spell whose scaled damage was held at the cap of 100 (the damage
\* dealt, with the critical and piercing bonuses, exceeds it).
C21_Witness ==
  /\ SpellReturned
  /\ ~ret.raised
  /\ ~ret.spellEffect.isNull
  /\ ret.spellEffect.damage = 100
  /\ ret.spellEffect.actualDamage > 100

\* A tick has removed the recorded effect from its creature, which is still
\* on its field.
RemovedByTick(b) ==
  /\ TicksSince(b) >= 1
  /\ OwnerOn(playerField, enemyField, b)
  /\ ~PresentOn(playerField, enemyField, b)

\* C22: the statModifications of an effect contribute to battleStats only
\* while the effect is active: once a tick has removed an effect from
\* activeEffects, the creature's battleStats after that tick and after every
\* later tick equal the base derived stats plus the modifications of the
\* effects still in the list, with no residue of the removed effect.
C22_NoResidueOfRemovedEffect ==
  AfterTick =>
    \A b \in born : \A c \in CreaturesOn(playerField, enemyField) :
      (/\ RemovedByTick(b)
       /\ c.id = b.owner
       /\ c.hasBattleStats
       /\ \A e \in EffectsOf(c) : e.type # "charge") =>
        c.battleStats = RecalculatedStats(c)

\* The creature carries an effect with stat modifications and no charge.
CarriesStatEffects(creature) ==
  /\ \E e \in EffectsOf(creature) : DOMAIN e.statModifications # {}
  /\ \A e \in EffectsOf(creature) : e.type # "charge"

\* The death sweep of this call has blessed the returned creature.
BlessedThisTurn(creature) ==
  \E e \in EffectsOf(creature) :
    e.type = "legendary_blessing" /\ e.id \notin GivenEffectIds

\* C23: the battleStats that the tick of processTurn assigns to a creature
\* whose effects carry stat modifications equal the result of the stat
\* recalculation pipeline (recalculateDerivedStats) for that creature with
\* the same effects: attack and defense floored at 1, maxHealth floored at
\* 10, permanentModifications added and the 1 + 0.08 * combination_level
\* multiplier applied.
C23_TickStatsMatchRecalculation ==
  (TurnReturned /\ ~ret.raised) =>
    \A c \in GivenCreatures :
      (/\ c.hasStats
       /\ SurvivesThisTurn(c)
       /\ CarriesStatEffects(c)
       /\ ~BlessedThisTurn(ReturnedWithId(c.id))) =>
        ReturnedWithId(c.id).battleStats = RecalculatedStats(c)

\* The list in the opposite order: a permutation of it.
Reversed(list) == [i \in 1..Len(list) |-> list[Len(list) + 1 - i]]

\* C24: recalculateDerivedStats is independent of the order of
\* activeEffects: for two creatures that differ only by a permutation of
\* their activeEffects list it returns identical battleStats (base attack 5
\* with effects -10 and +10 gives 5 in either order).
C24_RecalculationIgnoresEffectOrder ==
  (call.op = "recalculateDerivedStats" /\ opsDone >= 1) =>
    ret.battleStats =
      RecalculatedStats([call.before EXCEPT
                           !.activeEffects = Reversed(@)])

RECURSIVE NetHealthChange(_, _)
\* The sum of the scaled health changes of the creature's effects from
\* index i on.
NetHealthChange(creature, i) ==
  IF i > Len(creature.activeEffects) THEN 0
  ELSE (IF creature.activeEffects[i].healthOverTime = 0 THEN 0
        ELSE ScaledHealthChange(creature.activeEffects[i].healthOverTime,
                                call.difficulty, creature.rarity))
       + NetHealthChange(creature, i + 1)

\* The creature's health plus the net change, clamped into [0, maxHealth].
HealthAfterNetChange(creature) ==
  Min(creature.battleStats["maxHealth"],
      Max(0, creature.currentHealth + NetHealthChange(creature, 1)))

\* C25: the currentHealth a creature has after a tick is independent of the
\* order of its activeEffects: for a creature with several healthOverTime
\* effects any permutation of the list gives the same health after the tick,
\* equal to the net sum of the scaled health changes clamped into
\* [0, maxHealth].
C25_TickHealthIgnoresEffectOrder ==
  (TurnReturned /\ ~ret.raised) =>
    \A c \in GivenCreatures :
      (HealthAfterNetChange(c) > 0 /\ SurvivesThisTurn(c)) =>
        ReturnedWithId(c.id).currentHealth = HealthAfterNetChange(c)

\* The turn counter the last tick ran with.
LastTickTurn == IF incrementFirst THEN turn ELSE turn - 1

\* The value the map gives the stat (0 when it has none).
ValueIn(mods, stat) == IF stat \in DOMAIN mods THEN mods[stat] ELSE 0

\* C26: during a tick at elapsed = currentTurn - startTurn < maxTurns, one
\* charge effect attached by applyTool contributes exactly
\* floor(perTurnBonus * elapsed / maxTurns) to battleStats[targetStat],
\* counted once, in addition to the effect's own immediate
\* statModifications, which are left intact.
C26_ChargeBonusCountedOnce ==
  AfterTick =>
    \A c \in CreaturesOn(playerField, enemyField) :
      \A b \in ChargesOf(c.id) :
        (/\ PresentOn(playerField, enemyField, b)
         /\ LastTickTurn - b.effect.startTurn \in 0..2
         /\ \A x \in born : x.owner = c.id => x.id = b.id) =>
          /\ c.battleStats[b.effect.chargeEffect.targetStat]
               = c.derived[b.effect.chargeEffect.targetStat]
                 + ValueIn(b.effect.statModifications,
                           b.effect.chargeEffect.targetStat)
                 + FloorDiv(b.effect.chargeEffect.perTurnBonus
                              * (LastTickTurn - b.effect.startTurn), 3)
          /\ CarriedOn(playerField, enemyField, b).statModifications
               = b.effect.statModifications

\* The Echo effects with a healthOverTime that the battle has attached.
EchoesBorn ==
  {b \in born : b.effect.effectType = "Echo" /\ b.effect.healthOverTime # 0}

\* C27: for an Echo effect created with healthOverTime H0, the health change
\* applied at each tick (before difficulty and rarity scaling) is
\* round(H0 * (0.8 + 0.3 * sin(elapsed * pi / 3))), computed from the
\* original H0 and the elapsed turns of that tick: the rescaled value of one
\* tick is not the input of the next tick's rescaling.
C27_EchoRescaledFromOriginal ==
  AfterTick =>
    \A b \in EchoesBorn :
      (PresentOn(playerField, enemyField, b) /\ TicksSince(b) >= 1) =>
        CarriedOn(playerField, enemyField, b).healthOverTime
          = RoundDiv(b.effect.healthOverTime
                       * EchoIntensity(LastTickTurn - b.effect.startTurn),
                     1000000)

\* What C28 says of one step of the battle: a charge effect that leaves the
\* activeEffects of a creature that stays on its field grants its
\* finalBurst to nextAttackBonus in that step.
ChargeLeavesFired ==
  \A c \in CreaturesOn(playerField, enemyField) :
    \A after \in {x \in CreaturesOn(playerField', enemyField') :
                    x.id = c.id} :
      \A b \in ChargesOf(c.id) :
        (/\ b.effect.duration = 3
         /\ b.effect.chargeEffect.finalBurst > 0
         /\ PresentOn(playerField, enemyField, b)
         /\ ~PresentOn(playerField', enemyField', b)) =>
          after.nextAttackBonus
            >= c.nextAttackBonus + b.effect.chargeEffect.finalBurst

\* C28: every charge effect attached by applyTool (duration 3, maxTurns 3,
\* startTurn = turn of application) grants its finalBurst to nextAttackBonus
\* before it leaves activeEffects, under one tick per turn with the turn
\* counter advancing by 1 between ticks, whether the first tick after the
\* application runs with the turn counter equal to the application turn or
\* one greater; the effect is never purged by duration expiry without
\* having fired.
C28_ChargeFiresBeforeLeaving == [][ChargeLeavesFired]_vars


\* A call of applySpell whose caster has stats but no battleStats and whose
\* spell is a Drain spell aimed at another creature.
DrainWithoutBattleStats ==
  /\ SpellReturned
  /\ call.caster.present /\ call.caster.hasStats
  /\ ~call.caster.hasBattleStats
  /\ call.target.present /\ call.target.hasBattleStats
  /\ call.spell.present /\ call.spell.spell_effect = "Drain"
  /\ call.caster.id # call.target.id

\* C29: applySpell never raises on invalid input: when the caster has stats
\* but lacks battleStats and the spell has a selfHeal or statDrain component
\* (a Drain spell) aimed at a different target, the call returns a safe
\* result (caster and target unchanged, null effect) instead of throwing.
C29_DrainWithoutBattleStatsIsSafe ==
  DrainWithoutBattleStats =>
    /\ ~ret.raised
    /\ ret.updatedCaster = call.caster
    /\ ret.updatedTarget = call.target
    /\ ret.spellEffect.isNull


\* A call of applySpell that returned a scaled effect with healing.
HealingSpellReturned ==
  /\ SpellReturned
  /\ ~ret.raised
  /\ ~ret.spellEffect.isNull
  /\ ret.spellEffect.healing > 0

\* C30: applySpell with a spell whose scaled effect has healing > 0 (Shield
\* spells) applies the immediate healing to the target whether or not the
\* target is the caster: the returned target's currentHealth is the smaller
\* of its battleStats.maxHealth and the given currentHealth plus the healing.
C30_HealingReachesAnyTarget ==
  HealingSpellReturned =>
    ret.updatedTarget.currentHealth
      = Min(ret.updatedTarget.battleStats["maxHealth"],
            call.target.currentHealth + ret.spellEffect.healing)


\* A call of applySpell that returned an effect with a stat drain.
DrainSpellReturned ==
  /\ SpellReturned
  /\ ~ret.raised
  /\ ~ret.spellEffect.isNull
  /\ ret.spellEffect.hasDrain

\* The stats of the drain that the battleStats of both creatures define.
DrainedStats ==
  {s \in DOMAIN StatDrain :
     /\ s \in DOMAIN call.target.battleStats
     /\ s \in DOMAIN call.caster.battleStats}

\* C31: for a stat-drain spell, each stat named in statDrain is changed only
\* when the battleStats of both the target and the caster define it; then the
\* target's stat becomes max(0, t + statDrain[stat]) and the caster's stat
\* becomes c + statGain[stat] with no clamp; a stat missing on either side is
\* left unchanged on both.
C31_DrainTransfersSharedStats ==
  DrainSpellReturned =>
    /\ DOMAIN ret.updatedTarget.battleStats = DOMAIN call.target.battleStats
    /\ DOMAIN ret.updatedCaster.battleStats = DOMAIN call.caster.battleStats
    /\ \A s \in DrainedStats :
         /\ ret.updatedTarget.battleStats[s]
              = Max(0, call.target.battleStats[s] + StatDrain[s])
         /\ ret.updatedCaster.battleStats[s]
              = call.caster.battleStats[s] + StatGain[s]
    /\ \A s \in (DOMAIN StatDrain) \ DrainedStats :
         /\ s \in DOMAIN call.target.battleStats =>
              ret.updatedTarget.battleStats[s] = call.target.battleStats[s]
         /\ s \in DOMAIN call.caster.battleStats =>
              ret.updatedCaster.battleStats[s] = call.caster.battleStats[s]

\* A drain between two creatures that share physicalAttack only: it moves
\* physicalAttack and leaves the target's magicalAttack as it was.
C31_Witness ==
  /\ DrainSpellReturned
  /\ DrainedStats = {"physicalAttack"}
  /\ "magicalAttack" \in DOMAIN call.target.battleStats
  /\ ret.updatedTarget.battleStats["magicalAttack"]
       = call.target.battleStats["magicalAttack"]
  /\ ret.updatedTarget.battleStats["physicalAttack"]
       = call.target.battleStats["physicalAttack"] - 3
  /\ ret.updatedCaster.battleStats["physicalAttack"]
       = call.caster.battleStats["physicalAttack"] + 2


\* The creatures an item call was given, each with the creature returned
\* for it.
ItemChanges ==
  IF ToolReturned /\ ~ret.toolEffect.isNull
  THEN {<<call.creature, ret.updatedCreature>>}
  ELSE IF SpellReturned /\ ~ret.raised /\ ~ret.spellEffect.isNull
  THEN {<<call.target, ret.updatedTarget>>,
        <<call.caster, ret.updatedCaster>>}
  ELSE {}

\* C32: after applyTool or applySpell, every returned creature whose
\* battleStats differ from the input's has battleStats equal to
\* recalculateDerivedStats of that returned creature: every stat change made
\* by the item is backed by an entry in activeEffects, and a later
\* recalculation of the unchanged creature returns the same battleStats
\* (the caster's gain and the target's loss of a Drain spell included).
C32_ItemStatsBackedByEffects ==
  \A change \in ItemChanges :
    change[2].battleStats # change[1].battleStats =>
      change[2].battleStats = RecalculatedStats(change[2])


\* A call of applySpell that returned an effect with damage.
DamagingSpellReturned ==
  /\ SpellReturned
  /\ ~ret.raised
  /\ ~ret.spellEffect.isNull
  /\ ret.spellEffect.damage # 0

\* C33: for every damaging applySpell call, the actualDamage recorded on the
\* returned spell effect equals the health the target actually lost,
\* target.currentHealth - updatedTarget.currentHealth, and so never exceeds
\* the target's health before the spell.
C33_ActualDamageIsHealthLost ==
  DamagingSpellReturned =>
    /\ ret.spellEffect.actualDamage
         = call.target.currentHealth - ret.updatedTarget.currentHealth
    /\ ret.spellEffect.actualDamage <= call.target.currentHealth


\* after is before followed by exactly one effect, which before did not hold.
OneEffectAppended(before, after) ==
  /\ Len(after) = Len(before) + 1
  /\ SubSeq(after, 1, Len(before)) = before
  /\ \A i \in 1..Len(before) : before[i].id # after[Len(after)].id

\* What the duration of the resolved effect makes of the list of effects.
EffectsFollowDuration(duration, before, after) ==
  IF duration > 0 THEN OneEffectAppended(before, after) ELSE after = before

\* C34: applyTool and applySpell append exactly one new effect to the
\* target's activeEffects when the resolved effect's duration is above 0 and
\* none when it is 0 (Surge spells); the effect comes after all existing
\* ones, which keep their order and fields, and a caster that is a different
\* creature keeps its activeEffects.
C34_OneEffectAppendedLast ==
  /\ (ToolReturned /\ ~ret.toolEffect.isNull) =>
       EffectsFollowDuration(ret.toolEffect.duration,
                             call.creature.activeEffects,
                             ret.updatedCreature.activeEffects)
  /\ (SpellReturned /\ ~ret.raised /\ ~ret.spellEffect.isNull) =>
       /\ EffectsFollowDuration(ret.spellEffect.duration,
                                call.target.activeEffects,
                                ret.updatedTarget.activeEffects)
       /\ call.caster.id # call.target.id =>
            ret.updatedCaster.activeEffects = call.caster.activeEffects

\* A spell with a duration cast by a creature with an effect of its own on a
\* target that carries two effects already.
C34_Witness ==
  /\ SpellReturned /\ ~ret.raised /\ ~ret.spellEffect.isNull
  /\ ret.spellEffect.duration > 0
  /\ call.caster.id # call.target.id
  /\ Len(call.caster.activeEffects) = 1
  /\ Len(call.target.activeEffects) = 2
  /\ Len(ret.updatedTarget.activeEffects) = 3


\* The effects processAttack added behind the ones the defender came with.
AddedByAttack ==
  SubSeq(ret.updatedDefender.activeEffects,
         Len(call.defender.activeEffects) + 1,
         Len(ret.updatedDefender.activeEffects))

\* The positions of AddedByAttack that hold an effect of the given name.
AddedNamed(name) ==
  {i \in 1..Len(AddedByAttack) : AddedByAttack[i].name = name}

\* C35: processAttack appends to the defender at most one 'Critical Strike
\* Trauma' debuff (duration 1), and only when the attack was not dodged and
\* was critical, and at most one 'Elemental Weakness' debuff (duration 2),
\* and only when the attack was not dodged and its effectiveness is
\* 'effective' or 'very effective'; the defender's existing effects are kept
\* in order and the attacker's activeEffects are unchanged.
C35_AttackDebuffsOnlyOnHit ==
  ValidAttack =>
    /\ Len(ret.updatedDefender.activeEffects)
         >= Len(call.defender.activeEffects)
    /\ SubSeq(ret.updatedDefender.activeEffects, 1,
              Len(call.defender.activeEffects)) = call.defender.activeEffects
    /\ ret.updatedAttacker.activeEffects = call.attacker.activeEffects
    /\ \A i \in 1..Len(AddedByAttack) :
         i \in AddedNamed("Critical Strike Trauma")
               \cup AddedNamed("Elemental Weakness")
    /\ Cardinality(AddedNamed("Critical Strike Trauma")) <= 1
    /\ Cardinality(AddedNamed("Elemental Weakness")) <= 1
    /\ \A i \in AddedNamed("Critical Strike Trauma") :
         /\ AddedByAttack[i].duration = 1
         /\ AddedByAttack[i].type = "debuff"
         /\ ~call.damageResult.isDodged
         /\ call.damageResult.isCritical
    /\ \A i \in AddedNamed("Elemental Weakness") :
         /\ AddedByAttack[i].duration = 2
         /\ AddedByAttack[i].type = "debuff"
         /\ ~call.damageResult.isDodged
         /\ call.damageResult.effectiveness
              \in {"effective", "very effective"}

\* A critical, effective hit whose two rolls succeed, on a defender that
\* carries an effect, by an attacker that carries one too.
C35_Witness ==
  /\ ValidAttack
  /\ Len(call.attacker.activeEffects) = 1
  /\ Len(call.defender.activeEffects) = 1
  /\ Cardinality(AddedNamed("Critical Strike Trauma")) = 1
  /\ Cardinality(AddedNamed("Elemental Weakness")) = 1
  /\ Len(ret.updatedDefender.activeEffects) = 3


\* The health of a creature after the effect tick of this call; the tick
\* passes over a creature without battleStats.
HealthAfterTick(creature) ==
  IF creature.hasBattleStats THEN HealthTickedOnce(creature)
  ELSE creature.currentHealth

\* The ids of the creatures of a field, in field order.
IdsOf(field) == [i \in 1..Len(field) |-> field[i].id]

\* The ids of the creatures of a given field that are alive after the tick.
AliveAfterTick(field) ==
  IdsOf(SelectSeq(field, LAMBDA c : HealthAfterTick(c) > 0))

\* C36: after every processTurn, both fields contain exactly the creatures
\* whose currentHealth after the effect tick is above 0, in their original
\* relative order: no creature with currentHealth <= 0 remains on either
\* field and no creature with currentHealth > 0 is removed.
C36_FieldsHoldTheLiving ==
  (TurnReturned /\ ~ret.raised) =>
    /\ IdsOf(ret.playerField) = AliveAfterTick(call.previous.playerField)
    /\ IdsOf(ret.enemyField) = AliveAfterTick(call.previous.enemyField)
    /\ \A c \in ReturnedCreatures : c.currentHealth > 0

\* A turn that removes a defeated creature standing between two living
\* ones, and whose tick defeats a creature of the other field.
C36_Witness ==
  /\ TurnReturned /\ ~ret.raised
  /\ \E i, j, k \in 1..Len(call.previous.playerField) :
       /\ i < j /\ j < k
       /\ HealthAfterTick(call.previous.playerField[i]) > 0
       /\ HealthAfterTick(call.previous.playerField[j]) <= 0
       /\ HealthAfterTick(call.previous.playerField[k]) > 0
  /\ \E c \in CreaturesOn(call.previous.enemyField, <<>>) :
       /\ c.currentHealth > 0
       /\ HealthAfterTick(c) <= 0
  /\ Len(ret.playerField) < Len(call.previous.playerField)


\* The battleStats and the activeEffects of the creatures of a field.
StatsAndEffects(field) ==
  [i \in 1..Len(field) |->
     [battleStats |-> field[i].battleStats,
      activeEffects |-> field[i].activeEffects]]

\* The given state object holds after the call what it held before.
GivenUntouched ==
  /\ call.given.playerHand = call.previous.playerHand
  /\ call.given.enemyHand = call.previous.enemyHand
  /\ call.given.playerDeck = call.previous.playerDeck
  /\ call.given.enemyDeck = call.previous.enemyDeck
  /\ IdsOf(call.given.playerField) = IdsOf(call.previous.playerField)
  /\ IdsOf(call.given.enemyField) = IdsOf(call.previous.enemyField)
  /\ StatsAndEffects(call.given.playerField)
       = StatsAndEffects(call.previous.playerField)
  /\ StatsAndEffects(call.given.enemyField)
       = StatsAndEffects(call.previous.enemyField)

\* C37: processTurn does not mutate the gameState it is given: after the
\* call the input state's playerHand, enemyHand, decks, fields and the
\* battleStats and activeEffects of the creatures in those fields are the
\* same as before, and all changes appear only in the returned state (also
\* on turns with a card draw or a Legendary death).
C37_TurnLeavesGivenState ==
  (TurnReturned /\ ~ret.raised) => GivenUntouched


\* The creatures of the given fields, malformed ones included.
GivenPresent ==
  {c \in CreaturesOn(call.previous.playerField, call.previous.enemyField) :
     c.present}

\* Every effect the creature was given is gone from the returned creature or
\* has fewer turns left on it than it was given with.
EffectsRanDown(given, returned) ==
  \A e \in EffectsOf(given) :
    \A f \in EffectsOf(returned) :
      f.id = e.id => (f.duration < e.duration /\ f.duration >= 1)

\* C38: every effect eventually expires: when no operation adds new effects,
\* every creature's activeEffects list is empty after finitely many
\* processTurn ticks, at most the largest remaining duration, and the
\* durations of the remaining effects strictly decrease from tick to tick.
\* Stated for one tick: each effect a creature carried into the call has
\* left the creature or has a smaller duration, of at least 1, after it.
C38_EveryEffectRunsDown ==
  (TurnReturned /\ ~ret.raised) =>
    \A given \in GivenPresent :
      \A returned \in ReturnedCreatures :
        returned.id = given.id => EffectsRanDown(given, returned)


\* ------------------------------------------------------------------------
\* Calls of calculateComboBonus
\* ------------------------------------------------------------------------

\* The largest count of consecutive actions drawn.
MaxComboLevel == 12

ComboCounts == (-2)..MaxComboLevel

\* Two counts of consecutive actions, the first no larger than the second.
InitCombo ==
  /\ NoBattle
  /\ call \in {[op |-> "calculateComboBonus", lower |-> pair[1],
                 upper |-> pair[2]] :
                 pair \in {p \in ComboCounts \X ComboCounts : p[1] <= p[2]}}
  /\ ret = [op |-> "none"]

\* calculateComboBonus applied to each of the two counts.
ComboCall ==
  /\ call.op = "calculateComboBonus"
  /\ CallFrame
  /\ ret' = [lower |-> calculateComboBonus(call.lower),
             upper |-> calculateComboBonus(call.upper)]

NextCombo == ComboCall

SpecCombo == InitCombo /\ [][NextCombo]_vars

ComboReturned == call.op = "calculateComboBonus" /\ Returned

\* The bonus the claim gives for n consecutive actions, in hundredths.
ComboBonusClaimed(n) ==
  CASE n <= 1 -> 100
    [] n \in 2..4 -> 100 + 5 * n
    [] OTHER -> 125

\* C39: the combo bonus calculateComboBonus(n) is monotonic non-decreasing
\* in n and capped: it is 1.0 for n <= 1 and 1 + min(0.05 x n, 0.25)
\* otherwise, so it always lies in [1.0, 1.25].
C39_ComboBonusMonotonicAndCapped ==
  ComboReturned =>
    /\ ret.lower <= ret.upper
    /\ ret.lower = ComboBonusClaimed(call.lower)
    /\ ret.upper = ComboBonusClaimed(call.upper)
    /\ ret.lower >= 100 /\ ret.upper <= 125

\* A short combo below the cap against a long one held at the cap.
C39_Witness ==
  /\ ComboReturned
  /\ call.lower = 2 /\ call.upper = 9
  /\ ret.lower = 110 /\ ret.upper = 125

=============================================================================
